---- MODULE Spec2Model ----
(***************************************************************************)
(* Model of the social-posts service: accounts, bearer tokens, identity    *)
(* resolution and the post handlers, at the level of HTTP requests that    *)
(* are handled concurrently and interleave at their database accesses.     *)
(***************************************************************************)
EXTENDS Integers, Sequences, FiniteSets, TLC

-----------------------------------------------------------------------------
(* Bounds of the model *)

\* clock ticks per second: the clock is finer than the whole seconds of "exp"
TicksPerSec == 2
\* how many single ticks the clock takes after each jump
MaxSkew == 2
\* how many token lifetimes the clock jumps over
MaxJumps == 1
\* how many posts are ever created
MaxPosts == 2

\* the connections whose requests are handled concurrently
Procs == {1, 2}

-----------------------------------------------------------------------------
(* Program constants *)

ACCESS_TOKEN_EXPIRE_MINUTES == 30
MAX_PAYLOAD_SIZE == 1024 * 1024
CACHE_EXPIRE_MINUTES == 5
SECRET_KEY == "your-secret-key-change-in-production"
ALGORITHM == "HS256"

HTTP_200_OK == 200
HTTP_201_CREATED == 201
HTTP_400_BAD_REQUEST == 400
HTTP_401_UNAUTHORIZED == 401
HTTP_404_NOT_FOUND == 404
HTTP_413_PAYLOAD_TOO_LARGE == 413
HTTP_422_UNPROCESSABLE == 422

-----------------------------------------------------------------------------
(* Values *)

None == [none |-> TRUE]

Digits == <<"0", "1", "2", "3", "4", "5", "6", "7", "8", "9">>
DigitSet == {Digits[i] : i \in 1..10}
Letters == {"a", "d", "o", "p", "r", "s", "w", "x"}

\* str(n) of a non-negative int: its decimal digits
RECURSIVE str(_)
str(n) == IF n < 10 THEN <<Digits[n + 1]>>
          ELSE Append(str(n \div 10), Digits[(n % 10) + 1])

DigitValue(c) == (CHOOSE i \in 1..10 : Digits[i] = c) - 1

\* int(s) raises ValueError unless s is a string of digits
IsNumeric(s) == Len(s) > 0 /\ \A i \in 1..Len(s) : s[i] \in DigitSet

RECURSIVE int(_)
int(s) == IF Len(s) = 1 THEN DigitValue(s[1])
          ELSE 10 * int(SubSeq(s, 1, Len(s) - 1)) + DigitValue(s[Len(s)])

Emails == {"a@x.com", "b@x.com"}
PW1 == <<"p", "a", "s", "s", "1", "2", "3", "4">>
PW2 == <<"w", "o", "r", "d", "5", "6", "7", "8">>
Passwords == {PW1, PW2}
Salts == {"salt1", "salt2"}
Texts == {<<"h", "i">>}

\* the clock, in ticks; exp and created_at are whole seconds
UnixSeconds(t) == t \div TicksPerSec
TokenTTLTicks == ACCESS_TOKEN_EXPIRE_MINUTES * 60 * TicksPerSec

-----------------------------------------------------------------------------
(* Credential hasher: auth_service.py get_password_hash / verify_password  *)

\* CryptContext(schemes=["bcrypt"]): bcrypt hashes the first 72 bytes of the
\* password and passlib passes a longer one on without an error
Truncated(password) ==
    IF Len(password) > 72 THEN SubSeq(password, 1, 72) ELSE password

Digest(password, salt) == <<"bcrypt", salt, Truncated(password)>>

get_password_hash(password, salt) ==
    [salt |-> salt, digest |-> Digest(password, salt)]

\* verify_password comparing the password with the stored hash itself
verify_password_plain(plain_password, hashed_password) ==
    hashed_password.digest = plain_password

verify_password(plain_password, hashed_password) ==
    hashed_password.digest = Digest(plain_password, hashed_password.salt)

-----------------------------------------------------------------------------
(* Token service: auth_service.py create_access_token / verify_token       *)

NoToken == [kind |-> "absent", sub |-> <<>>, email |-> "", exp |-> 0,
            key |-> "", alg |-> ""]

-----------------------------------------------------------------------------
(* User store: user_repository.py over the users table                      *)

VARIABLES
    users,      \* users table: id -> row
    posts,      \* posts table: id -> row
    nextPostId, \* AUTO_INCREMENT of posts.id
    now,        \* the clock, in ticks
    pc,         \* where each request handler stands
    req,        \* the request each handler is serving
    cur,        \* current_user.id of a protected request (0: none)
    loaded,     \* the Post loaded by delete_post
    cache,      \* PostService._cache of the service object of each handler
    tok,        \* the token that signup or login issued last
    resp,       \* the last response each client received
    case,       \* which case of the operation that response answers (history)
    signupOK,   \* successful signups per email (history)
    shared,     \* _cache of a PostService object that serves several calls
    settings,   \* config.settings as loaded from the environment
    writes      \* posts created and deleted through that object, per owner
                \* (history)

vars == <<users, posts, nextPostId, now, pc, req, cur, loaded, cache, tok,
          resp, case, signupOK, shared, settings, writes>>

\* the tokens are signed and verified with the SECRET_KEY of the settings
\* create_access_token without the timedelta
create_access_token_now(data, t) ==
    [kind |-> "jwt", sub |-> data.sub, email |-> data.email,
     exp |-> UnixSeconds(t),
     key |-> settings.SECRET_KEY, alg |-> ALGORITHM]

\* expire = utcnow() + timedelta(minutes); jwt.encode writes exp in whole seconds
create_access_token(data, t) ==
    [kind |-> "jwt", sub |-> data.sub, email |-> data.email,
     exp |-> UnixSeconds(t + TokenTTLTicks),
     key |-> settings.SECRET_KEY, alg |-> ALGORITHM]

\* verify_token taking any signing key
verify_token_any_key(token, t) ==
    IF \/ token.kind # "jwt"
       \/ token.alg # ALGORITHM
       \/ token.exp < UnixSeconds(t)
    THEN None
    ELSE [sub |-> token.sub, email |-> token.email, exp |-> token.exp]

\* jwt.decode raises JWTError on a malformed token, a bad signature, another
\* algorithm, or exp < the current whole second; the payload otherwise
verify_token(token, t) ==
    IF \/ token.kind # "jwt"
       \/ token.key # settings.SECRET_KEY
       \/ token.alg # ALGORITHM
       \/ token.exp < UnixSeconds(t)
    THEN None
    ELSE [sub |-> token.sub, email |-> token.email, exp |-> token.exp]

UserRow(id) ==
    [id |-> id, email |-> users[id].email,
     hashed_password |-> users[id].hashed_password,
     is_active |-> users[id].is_active]

get_by_email(email) ==
    IF \E id \in DOMAIN users : users[id].email = email
    THEN UserRow(CHOOSE id \in DOMAIN users : users[id].email = email)
    ELSE None

get_by_id(user_id) ==
    IF user_id \in DOMAIN users THEN UserRow(user_id) ELSE None

is_active(user) == IF user # None THEN user.is_active ELSE FALSE

\* UserInsert on a table whose email column has no UNIQUE index
UserInsertNoUnique(email, hashed_password, password) ==
    LET id == Cardinality(DOMAIN users) + 1
    IN  [id |-> id,
         table |-> [i \in DOMAIN users \cup {id} |->
                      IF i = id
                      THEN [email |-> email,
                            hashed_password |-> hashed_password,
                            is_active |-> TRUE,
                            plain |-> password]
                      ELSE users[i]]]

\* the users table with one more row; the UNIQUE index on email makes the
\* INSERT fail with IntegrityError (None here) when the email is taken
UserInsert(email, hashed_password, password) ==
    IF \E id \in DOMAIN users : users[id].email = email
    THEN None
    ELSE LET id == Cardinality(DOMAIN users) + 1
         IN  [id |-> id,
              table |-> [i \in DOMAIN users \cup {id} |->
                            IF i = id
                            THEN [email |-> email,
                                  hashed_password |-> hashed_password,
                                  is_active |-> TRUE,
                                  plain |-> password]
                            ELSE users[i]]]

-----------------------------------------------------------------------------
(* Requests, responses and the history kept about them                      *)

\* size is the number of bytes of the body, and declared tells whether the
\* request carries a Content-Length header (whose value is then size)
NoReq == [op |-> "none", email |-> "", password |-> <<>>, token |-> NoToken,
          issued |-> FALSE, text |-> <<>>, post_id |-> 0,
          size |-> 0, declared |-> FALSE]

SignupReq(email, password) ==
    [NoReq EXCEPT !.op = "signup", !.email = email, !.password = password]
LoginReq(email, password) ==
    [NoReq EXCEPT !.op = "login", !.email = email, !.password = password]
ListReq(token, issued) ==
    [NoReq EXCEPT !.op = "list", !.token = token, !.issued = issued]
CreateReq(token, issued, text) ==
    [NoReq EXCEPT !.op = "create", !.token = token, !.issued = issued,
                  !.text = text]
DeleteReq(token, issued, post_id) ==
    [NoReq EXCEPT !.op = "delete", !.token = token, !.issued = issued,
                  !.post_id = post_id]

Response(status, detail, headers, body) ==
    [status |-> status, detail |-> detail, headers |-> headers, body |-> body]

NoResp == Response(0, "", {}, None)

\* history: the case a response answers, decided from the store and the
\* request and not from what the handler computed
Case(kind, issued, post_id, user_id) ==
    [kind |-> kind, issued |-> issued, post_id |-> post_id, user_id |-> user_id,
     after |-> {}, at |-> 0, stamp |-> 0]

NoCase == Case("none", FALSE, 0, 0)

NoWallet == [token |-> NoToken, id |-> 0, email |-> "", at |-> 0]

EmptyCache == [k \in {} |-> None]

\* config.Settings with its defaults
DefaultSettings ==
    [SECRET_KEY |-> SECRET_KEY,
     MAX_PAYLOAD_SIZE |-> MAX_PAYLOAD_SIZE,
     CACHE_EXPIRE_MINUTES |-> CACHE_EXPIRE_MINUTES]

\* the connections whose last request was answered already
Answered == {q \in Procs : case[q].kind # "none"}

\* the handler of p returns response r, which answers case c; the case keeps
\* the connections that had their answer before
Finish(p, r, c) ==
    /\ resp' = [resp EXCEPT ![p] = r]
    /\ case' = [case EXCEPT ![p] = [c EXCEPT !.after = Answered \ {p}]]
    /\ pc' = [pc EXCEPT ![p] = "idle"]
    /\ req' = [req EXCEPT ![p] = NoReq]
    /\ cur' = [cur EXCEPT ![p] = 0]
    /\ loaded' = [loaded EXCEPT ![p] = None]

-----------------------------------------------------------------------------
(* Input validation: schemas/user.py                                        *)

HasLetter(v) == \E i \in 1..Len(v) : v[i] \in Letters
HasDigit(v) == \E i \in 1..Len(v) : v[i] \in DigitSet

\* UserCreate without validate_password
UserCreate_valid_length(password) ==
    /\ Len(password) >= 8
    /\ Len(password) <= 128

\* UserCreate: Field(min_length=8, max_length=128) and validate_password
UserCreate_valid(password) ==
    /\ Len(password) >= 8
    /\ Len(password) <= 128
    /\ HasLetter(password)
    /\ HasDigit(password)

\* UserLogin: Field(min_length=1, max_length=128)
UserLogin_valid(password) == Len(password) >= 1 /\ Len(password) <= 128

ValidationError == Response(HTTP_422_UNPROCESSABLE, "validation error", {}, None)

-----------------------------------------------------------------------------
(* Auth controller and service: signup and login                            *)

TokenResponse(token) == [token |-> token, token_type |-> "bearer"]

\* signup of the controller without its check of the result
signup_response_unchecked(token) == Response(HTTP_201_CREATED, "", {}, token)

\* controllers/auth_controller.py signup: 201 with the token, 400 on None
signup_response(token) ==
    IF token = None
    THEN Response(HTTP_400_BAD_REQUEST,
                  "Email already registered or registration failed", {}, None)
    ELSE Response(HTTP_201_CREATED, "", {}, token)

\* controllers/auth_controller.py login: 200 with the token, 401 on None
login_response(token) ==
    IF token = None
    THEN Response(HTTP_401_UNAUTHORIZED, "Invalid email or password", {}, None)
    ELSE Response(HTTP_200_OK, "", {}, token)

EmailRegistered(email) == \E id \in DOMAIN users : users[id].email = email

\* the id of the account that holds an email (0: none)
AccountOf(email) ==
    IF EmailRegistered(email)
    THEN CHOOSE id \in DOMAIN users : users[id].email = email
    ELSE 0

\* the claims signup and login put in a token
token_data(user) == [sub |-> str(user.id), email |-> user.email]

\* AuthService.signup up to the existence check
SignupCheck(p) ==
    /\ pc[p] = "signup"
    /\ IF ~UserCreate_valid(req[p].password)
       THEN /\ Finish(p, ValidationError, Case("signup_invalid", FALSE, 0, 0))
            /\ UNCHANGED <<users, signupOK>>
       ELSE IF get_by_email(req[p].email) # None
       THEN /\ Finish(p, signup_response(None),
                      Case(IF EmailRegistered(req[p].email)
                           THEN "signup_taken" ELSE "signup_fresh", FALSE, 0,
                           AccountOf(req[p].email)))
            /\ UNCHANGED <<users, signupOK>>
       ELSE /\ pc' = [pc EXCEPT ![p] = "signup_create"]
            /\ UNCHANGED <<users, signupOK, req, cur, loaded, resp, case>>
    /\ UNCHANGED <<shared, settings, writes, posts, nextPostId, now, cache, tok>>

\* AuthService.signup from the hash on: UserRepository.create, then the token
SignupCreate(p) ==
    /\ pc[p] = "signup_create"
    /\ \E salt \in Salts :
         LET email == req[p].email
             hashed == get_password_hash(req[p].password, salt)
             made == UserInsert(email, hashed, req[p].password)
             kind == IF EmailRegistered(email)
                     THEN "signup_raced" ELSE "signup_fresh"
         IN  IF made = None
             THEN /\ Finish(p, signup_response(None),
                            Case(kind, FALSE, 0, AccountOf(email)))
                  /\ UNCHANGED <<users, tok, signupOK>>
             ELSE LET user == [id |-> made.id, email |-> email]
                      token == create_access_token(token_data(user), now)
                  IN  /\ users' = made.table
                      /\ Finish(p, signup_response(TokenResponse(token)),
                                Case(kind, FALSE, 0, made.id))
                      /\ tok' = [token |-> token, id |-> made.id,
                                 email |-> email, at |-> now]
                      /\ signupOK' = [signupOK EXCEPT ![email] = @ + 1]
    /\ UNCHANGED <<shared, settings, writes, posts, nextPostId, now, cache>>

\* the case of a login, from the store and the password given at signup
LoginKind(email, password) ==
    IF ~EmailRegistered(email) THEN "login_unregistered"
    ELSE LET id == AccountOf(email)
         IN  IF ~users[id].is_active
             THEN IF users[id].plain = password
                  THEN "login_inactive" ELSE "login_inactive_wrong_password"
             ELSE IF users[id].plain # password THEN "login_wrong_password"
             ELSE "login_ok"

\* AuthService.login without the check of is_active
login_any_account(email, password, t) ==
    LET user == get_by_email(email)
    IN  IF user = None THEN None
        ELSE IF ~verify_password(password, user.hashed_password) THEN None
        ELSE TokenResponse(create_access_token(token_data(user), t))

\* AuthService.login: the token, or None
login(email, password, t) ==
    LET user == get_by_email(email)
    IN  IF user = None \/ ~is_active(user) THEN None
        ELSE IF ~verify_password(password, user.hashed_password) THEN None
        ELSE TokenResponse(create_access_token(token_data(user), t))

Login(p) ==
    /\ pc[p] = "login"
    /\ IF ~UserLogin_valid(req[p].password)
       THEN /\ Finish(p, ValidationError, Case("login_invalid", FALSE, 0, 0))
            /\ UNCHANGED tok
       ELSE LET email == req[p].email
                token == login(email, req[p].password, now)
                id == AccountOf(email)
            IN  /\ Finish(p, login_response(token),
                          Case(LoginKind(email, req[p].password), FALSE, 0, id))
                /\ tok' = IF token = None THEN tok
                           ELSE [token |-> token.token, id |-> id,
                                 email |-> email, at |-> now]
    /\ UNCHANGED <<shared, settings, writes, users, posts, nextPostId, now, cache, signupOK>>

-----------------------------------------------------------------------------
(* Identity resolution: auth_service.py get_current_user and the            *)
(* dependency of the protected routes, dependencies/auth_dependency.py      *)

ValueError == [error |-> "ValueError"]

\* get_current_user looking the account up by the email of the claims
get_current_user_by_email(token, t) ==
    LET payload == verify_token(token, t)
    IN  IF payload = None THEN None
        ELSE IF payload.sub = <<>> THEN None
        ELSE IF ~IsNumeric(payload.sub) THEN ValueError
        ELSE LET user == get_by_email(payload.email)
             IN  IF user = None \/ ~is_active(user) THEN None ELSE user

\* AuthService.get_current_user: the user, None, or the ValueError of int()
get_current_user(token, t) ==
    LET payload == verify_token(token, t)
    IN  IF payload = None THEN None
        ELSE IF payload.sub = <<>> THEN None
        ELSE IF ~IsNumeric(payload.sub) THEN ValueError
        ELSE LET user == get_by_id(int(payload.sub))
             IN  IF user = None \/ ~is_active(user) THEN None ELSE user

\* the 401 of the dependency, with its authentication challenge
Unauthorized ==
    Response(HTTP_401_UNAUTHORIZED, "Invalid or expired token",
             {"WWW-Authenticate: Bearer"}, None)

\* main.py value_error_exception_handler
value_error_response ==
    Response(HTTP_422_UNPROCESSABLE, "invalid literal for int()", {}, None)

\* the case of a bearer token, from the token and the users table
AuthKind(token, t) ==
    LET payload == verify_token(token, t)
    IN  IF payload = None THEN "auth_invalid_token"
        ELSE IF payload.sub = <<>> THEN "auth_no_subject"
        ELSE IF ~IsNumeric(payload.sub) THEN "auth_bad_subject"
        ELSE IF int(payload.sub) \notin DOMAIN users THEN "auth_no_account"
        ELSE IF ~users[int(payload.sub)].is_active THEN "auth_inactive"
        ELSE "auth_ok"

\* where the handler of a protected request starts
HandlerStage(op) ==
    CASE op = "create" -> "create"
      [] op = "list" -> "list"
      [] op = "delete" -> "delete_get"

HandlerStages == {"create", "list", "delete_get", "delete_commit"}

\* get_current_user of the dependency: the first step of a protected request
Auth(p) ==
    /\ pc[p] = "auth"
    /\ LET user == get_current_user(req[p].token, now)
           kind == AuthKind(req[p].token, now)
       IN  IF user = None
           THEN Finish(p, Unauthorized, Case(kind, req[p].issued, 0, 0))
           ELSE IF user = ValueError
           THEN Finish(p, value_error_response, Case(kind, req[p].issued, 0, 0))
           ELSE /\ cur' = [cur EXCEPT ![p] = user.id]
                /\ pc' = [pc EXCEPT ![p] = HandlerStage(req[p].op)]
                /\ UNCHANGED <<req, loaded, resp, case>>
    /\ UNCHANGED <<shared, settings, writes, users, posts, nextPostId, now, cache, tok, signupOK>>

-----------------------------------------------------------------------------
(* Post store: repositories/post_repository.py over the posts table         *)

CACHE_SECONDS == 300

IsSpace(c) == c = " "

\* str.strip()
RECURSIVE lstrip(_)
lstrip(v) == IF Len(v) > 0 /\ IsSpace(v[1]) THEN lstrip(Tail(v)) ELSE v

RECURSIVE rstrip(_)
rstrip(v) == IF Len(v) > 0 /\ IsSpace(v[Len(v)])
             THEN rstrip(SubSeq(v, 1, Len(v) - 1)) ELSE v

strip(v) == rstrip(lstrip(v))

\* PostBase with the upper limit exclusive
PostCreate_valid_below(text) == Len(text) >= 1 /\ Len(text) < 10000

\* PostBase: Field(min_length=1, max_length=10000)
PostCreate_valid(text) == Len(text) >= 1 /\ Len(text) <= 10000

\* PostCreate.validate_text_size returns the stripped text
validate_text_size(text) == strip(text)

PostRow(id) ==
    [id |-> id, user_id |-> posts[id].user_id, text |-> posts[id].text,
     created_at |-> posts[id].created_at]

\* an INSERT that writes the row of the first id again
PostInsertAtFirstId(text, user_id, t) ==
    [id |-> 1,
     table |-> [i \in DOMAIN posts \cup {1} |->
                  IF i = 1
                  THEN [user_id |-> user_id, text |-> text,
                        created_at |-> UnixSeconds(t)]
                  ELSE posts[i]]]

\* PostRepository.create: INSERT and commit; the table with the new row
PostInsert(text, user_id, t) ==
    [id |-> nextPostId,
     table |-> [i \in DOMAIN posts \cup {nextPostId} |->
                  IF i = nextPostId
                  THEN [user_id |-> user_id, text |-> text,
                        created_at |-> UnixSeconds(t)]
                  ELSE posts[i]]]

post_get_by_id(post_id) ==
    IF post_id \in DOMAIN posts THEN PostRow(post_id) ELSE None

\* is_owner without the comparison of the owner
is_owner_any(post, user_id) ==
    IF post # None THEN TRUE ELSE FALSE

\* is_owner with the comparison inverted
is_owner_other(post, user_id) ==
    IF post # None THEN post.user_id # user_id ELSE FALSE

is_owner(post, user_id) ==
    IF post # None THEN post.user_id = user_id ELSE FALSE

\* PostRepository.delete that returns True without a DELETE
PostDeleteNothing(post) == [ok |-> TRUE, table |-> posts]

\* PostRepository.delete: the table without the row and True. When the row
\* is gone already the DELETE matches no row: the mapper of Post has no
\* version counter, so the flush warns and raises nothing, the commit
\* succeeds and the repository returns True
PostDelete(post) ==
    [ok |-> TRUE,
     table |-> [i \in DOMAIN posts \ {post.id} |-> posts[i]]]

UserPostIds(user_id) == {i \in DOMAIN posts : posts[i].user_id = user_id}

\* get_user_posts ordering by created_at ascending
UserPostOrdersAscending(user_id) ==
    LET ids == UserPostIds(user_id)
        n == Cardinality(ids)
    IN  {s \in [1..n -> ids] :
           /\ \A i, j \in 1..n : i # j => s[i] # s[j]
           /\ \A i, j \in 1..n :
                i < j => posts[s[i]].created_at <= posts[s[j]].created_at}

\* PostRepository.get_user_posts: the ids of the user's posts in an order
\* that ORDER BY created_at DESC allows (rows with equal created_at in any)
UserPostOrders(user_id) ==
    LET ids == UserPostIds(user_id)
        n == Cardinality(ids)
    IN  {s \in [1..n -> ids] :
           /\ \A i, j \in 1..n : i # j => s[i] # s[j]
           /\ \A i, j \in 1..n :
                i < j => posts[s[i]].created_at >= posts[s[j]].created_at}

\* PostResponse.from_orm
PostResponse(id) ==
    [postID |-> id, user_id |-> posts[id].user_id, text |-> posts[id].text,
     created_at |-> posts[id].created_at]

-----------------------------------------------------------------------------
(* Post service and controller: services/post_service.py and                *)
(* controllers/post_controller.py. Every handler builds its own PostService, *)
(* so the cache a handler works on starts empty.                            *)

\* one key for the posts of every user
cache_key_common(user_id) == <<"user_posts_">>

cache_key(user_id) == <<"user_posts_">> \o str(user_id)

\* create_post and delete_post without the del of the entry
InvalidateNothing(c, key) == c

\* an invalidation that keeps the entry and marks it as expired
InvalidateMarkStale(c, key) ==
    [k \in DOMAIN c |->
       IF k = key THEN [c[k] EXCEPT !.time = 0 - CACHE_SECONDS * TicksPerSec]
       ELSE c[k]]

\* del self._cache[cache_key] when the key is there
Invalidate(c, key) == [k \in DOMAIN c \ {key} |-> c[k]]

\* cache_fresh taking an entry with no posts for no entry
cache_fresh_nonempty(c, key, t) ==
    /\ key \in DOMAIN c
    /\ c[key].data # <<>>
    /\ t - c[key].time < CACHE_SECONDS * TicksPerSec

\* cache_fresh taking an entry of exactly 300 seconds for a young one
cache_fresh_inclusive(c, key, t) ==
    key \in DOMAIN c /\ t - c[key].time <= CACHE_SECONDS * TicksPerSec

\* the entry of key in cache c is there and younger than the 300 seconds
cache_fresh(c, key, t) ==
    key \in DOMAIN c /\ t - c[key].time < CACHE_SECONDS * TicksPerSec

\* add_post: 201 with the id, 400 on None
create_response(result) ==
    IF result = None
    THEN Response(HTTP_400_BAD_REQUEST, "Failed to create post", {}, None)
    ELSE Response(HTTP_201_CREATED, "", {},
                  [postID |-> result.postID,
                   message |-> "Post created successfully"])

\* delete_post of the controller: 200 with the id, 404 on None
delete_response(result) ==
    IF result = None
    THEN Response(HTTP_404_NOT_FOUND,
                  "Post not found or you don't have permission to delete it",
                  {}, None)
    ELSE Response(HTTP_200_OK, "", {},
                  [message |-> "Post deleted successfully",
                   postID |-> result.postID])

\* PostService.create_post
CreatePost(p) ==
    /\ pc[p] = "create"
    /\ IF ~PostCreate_valid(req[p].text)
       THEN /\ Finish(p, ValidationError,
                      Case("create_invalid", req[p].issued, 0, cur[p]))
            /\ UNCHANGED <<posts, nextPostId, cache>>
       ELSE LET made == PostInsert(validate_text_size(req[p].text), cur[p], now)
            IN  /\ posts' = made.table
                /\ nextPostId' = nextPostId + 1
                /\ cache' = [cache EXCEPT ![p] =
                               Invalidate(EmptyCache, cache_key(cur[p]))]
                /\ Finish(p, create_response([postID |-> made.id]),
                          Case("create", req[p].issued, made.id, cur[p]))
    /\ UNCHANGED <<shared, settings, writes, users, now, tok, signupOK>>

\* get_user_posts that never answers from the cache
get_user_posts_uncached(c, user_id, t, order) ==
    LET key == cache_key(user_id)
        data == [i \in 1..Len(order) |-> PostResponse(order[i])]
    IN  [cache |-> [k \in DOMAIN c \cup {key} |->
                      IF k = key THEN [data |-> data, time |-> t] ELSE c[k]],
         body |-> [posts |-> data, total |-> Len(data), cached |-> FALSE]]

\* get_user_posts stamping the entry again on every answer from the cache
get_user_posts_sliding(c, user_id, t, order) ==
    LET key == cache_key(user_id)
        data == IF cache_fresh(c, key, t) THEN c[key].data
                ELSE [i \in 1..Len(order) |-> PostResponse(order[i])]
    IN  [cache |-> [k \in DOMAIN c \cup {key} |->
                      IF k = key THEN [data |-> data, time |-> t] ELSE c[k]],
         body |-> [posts |-> data, total |-> Len(data),
                   cached |-> cache_fresh(c, key, t)]]

\* PostService.get_user_posts on cache c at time t, where a fetch from the
\* store returns the posts in the order "order"
get_user_posts(c, user_id, t, order) ==
    LET key == cache_key(user_id)
    IN  IF cache_fresh(c, key, t)
        THEN [cache |-> c,
              body |-> [posts |-> c[key].data, total |-> Len(c[key].data),
                        cached |-> TRUE]]
        ELSE LET data == [i \in 1..Len(order) |-> PostResponse(order[i])]
             IN  [cache |-> [k \in DOMAIN c \cup {key} |->
                               IF k = key THEN [data |-> data, time |-> t]
                               ELSE c[k]],
                  body |-> [posts |-> data, total |-> Len(data),
                            cached |-> FALSE]]

\* get_posts of the controller
ListPosts(p) ==
    /\ pc[p] = "list"
    /\ \E order \in UserPostOrders(cur[p]) :
         LET r == get_user_posts(EmptyCache, cur[p], now, order)
         IN  /\ cache' = [cache EXCEPT ![p] = r.cache]
             /\ Finish(p, Response(HTTP_200_OK, "", {}, r.body),
                       Case("list", req[p].issued, 0, cur[p]))
    /\ UNCHANGED <<shared, settings, writes, users, posts, nextPostId, now, tok, signupOK>>

\* the case of a Delete, from the posts table
DeleteKind(post_id, user_id) ==
    IF post_id \notin DOMAIN posts THEN "delete_absent"
    ELSE IF posts[post_id].user_id # user_id THEN "delete_not_owner"
    ELSE "delete_owned"

\* PostService.delete_post up to the ownership check
DeleteGet(p) ==
    /\ pc[p] = "delete_get"
    /\ LET post == post_get_by_id(req[p].post_id)
           kind == DeleteKind(req[p].post_id, cur[p])
       IN  /\ cache' = [cache EXCEPT ![p] = EmptyCache]
           /\ IF post = None \/ ~is_owner(post, cur[p])
              THEN /\ Finish(p, delete_response(None),
                             Case(kind, req[p].issued, req[p].post_id, cur[p]))
              ELSE /\ loaded' = [loaded EXCEPT ![p] = post]
                   /\ pc' = [pc EXCEPT ![p] = "delete_commit"]
                   /\ UNCHANGED <<req, cur, resp, case>>
    /\ UNCHANGED <<shared, settings, writes, users, posts, nextPostId, now, tok, signupOK>>

\* PostService.delete_post from PostRepository.delete on
DeleteCommit(p) ==
    /\ pc[p] = "delete_commit"
    /\ LET done == PostDelete(loaded[p])
           found == DeleteKind(loaded[p].id, cur[p])
           kind == IF found = "delete_absent" THEN "delete_raced" ELSE found
       IN  /\ posts' = done.table
           /\ IF done.ok
              THEN /\ cache' = [cache EXCEPT ![p] =
                                  Invalidate(@, cache_key(cur[p]))]
                   /\ Finish(p, delete_response([postID |-> req[p].post_id]),
                             Case(kind, req[p].issued, req[p].post_id, cur[p]))
              ELSE /\ cache' = cache
                   /\ Finish(p, delete_response(None),
                             Case(kind, req[p].issued, req[p].post_id, cur[p]))
    /\ UNCHANGED <<shared, settings, writes, users, nextPostId, now, tok, signupOK>>

-----------------------------------------------------------------------------
(* The environment: clients sending requests, the clock, the administrator  *)

\* bearer strings that no signup or login returned
Garbage == [NoToken EXCEPT !.kind = "garbage"]
FarFuture == UnixSeconds(TokenTTLTicks * (MaxJumps + 2))
Signed(sub, email, exp) ==
    [kind |-> "jwt", sub |-> sub, email |-> email, exp |-> exp,
     key |-> SECRET_KEY, alg |-> ALGORITHM]

CraftedTokens ==
    { Garbage,
      [Signed(str(1), "a@x.com", FarFuture) EXCEPT !.key = "another-key"],
      [Signed(str(1), "a@x.com", FarFuture) EXCEPT !.alg = "none"],
      Signed(str(1), "a@x.com", -1),
      Signed(<<>>, "a@x.com", FarFuture),
      Signed(<<"x">>, "a@x.com", FarFuture),
      Signed(str(1), "a@x.com", FarFuture),
      Signed(str(1), "b@x.com", FarFuture),
      Signed(str(2), "a@x.com", FarFuture) }

WalletTokens == {tok.token} \ {NoToken}

\* the routes with delete_post lacking Depends(get_current_user)
FirstStageDeleteOpen(op) ==
    CASE op = "signup" -> "signup"
      [] op = "login" -> "login"
      [] op = "delete" -> "delete_get"
      [] OTHER -> "auth"

FirstStage(op) ==
    CASE op = "signup" -> "signup"
      [] op = "login" -> "login"
      [] OTHER -> "auth"

\* a client sends request r on connection p; what is kept of the request
\* before (its response, and the service object that served it) is dropped
Start(p, r) ==
    /\ pc[p] = "idle"
    /\ req' = [req EXCEPT ![p] = r]
    /\ pc' = [pc EXCEPT ![p] = FirstStage(r.op)]
    /\ resp' = [resp EXCEPT ![p] = NoResp]
    /\ case' = [case EXCEPT ![p] = NoCase]
    /\ cache' = [cache EXCEPT ![p] = EmptyCache]
    /\ UNCHANGED <<shared, settings, writes, users, posts, nextPostId, now, cur, loaded, tok, signupOK>>

\* the requests of the account flows: any signup and any login
AuthRequests ==
    {SignupReq(e, w) : e \in Emails, w \in Passwords}
    \cup {LoginReq(e, w) : e \in Emails, w \in Passwords}

ReceiveAuth(p) == \E r \in AuthRequests : Start(p, r)

\* the requests of the token flows: a login with the password of the
\* account, and a protected request with the token issued last or with any
\* other bearer string
TokenRequests ==
    {LoginReq(e, PW1) : e \in Emails}
    \cup {ListReq(t, TRUE) : t \in WalletTokens}
    \cup {ListReq(t, FALSE) : t \in CraftedTokens}

ReceiveToken(p) == \E r \in TokenRequests : Start(p, r)

\* the accounts the database holds when the post flows start, as two
\* signups leave them, and the tokens their owners hold
SeedEmail == <<"a@x.com", "b@x.com">>
SeedUsers ==
    [i \in 1..2 |-> [email |-> SeedEmail[i],
                     hashed_password |-> get_password_hash(PW1, "salt1"),
                     is_active |-> TRUE,
                     plain |-> PW1]]
SeedTokens ==
    {create_access_token(token_data([id |-> i, email |-> SeedEmail[i]]), 0) :
       i \in 1..2}

CreatesInFlight == Cardinality({q \in Procs : req[q].op = "create"})

\* the requests of the post flows
PostRequests ==
    {ListReq(t, TRUE) : t \in SeedTokens}
    \cup {ListReq(Garbage, FALSE)}
    \cup {CreateReq(t, TRUE, x) : t \in SeedTokens, x \in
            IF nextPostId + CreatesInFlight <= MaxPosts THEN Texts ELSE {}}
    \cup {CreateReq(Garbage, FALSE, x) : x \in Texts}
    \cup {DeleteReq(t, TRUE, i) : t \in SeedTokens, i \in 1..MaxPosts}
    \cup {DeleteReq(Garbage, FALSE, i) : i \in 1..MaxPosts}

ReceivePost(p) == \E r \in PostRequests : Start(p, r)

\* the clock advances by one tick, or by the lifetime of a token
Tick ==
    /\ now % TokenTTLTicks < MaxSkew
    /\ now' = now + 1
    /\ UNCHANGED <<shared, settings, writes, users, posts, nextPostId, pc, req, cur, loaded, cache, tok,
                   resp, case, signupOK>>

Jump ==
    /\ now < MaxJumps * TokenTTLTicks
    /\ now' = now + TokenTTLTicks
    /\ UNCHANGED <<shared, settings, writes, users, posts, nextPostId, pc, req, cur, loaded, cache, tok,
                   resp, case, signupOK>>

\* the is_active column of a user is cleared in the database
Deactivate(id) ==
    /\ id \in DOMAIN users
    /\ users[id].is_active
    /\ users' = [users EXCEPT ![id].is_active = FALSE]
    /\ UNCHANGED <<shared, settings, writes, posts, nextPostId, now, pc, req, cur, loaded, cache, tok,
                   resp, case, signupOK>>

-----------------------------------------------------------------------------
(* Specifications *)

Init ==
    /\ users = [i \in {} |-> None]
    /\ posts = [i \in {} |-> None]
    /\ nextPostId = 1
    /\ now = 0
    /\ pc = [p \in Procs |-> "idle"]
    /\ req = [p \in Procs |-> NoReq]
    /\ cur = [p \in Procs |-> 0]
    /\ loaded = [p \in Procs |-> None]
    /\ cache = [p \in Procs |-> EmptyCache]
    /\ tok = NoWallet
    /\ resp = [p \in Procs |-> NoResp]
    /\ case = [p \in Procs |-> NoCase]
    /\ signupOK = [e \in Emails |-> 0]
    /\ shared = EmptyCache
    /\ settings = DefaultSettings
    /\ writes = [u \in 1..2 |-> 0]

InitSeeded ==
    /\ users = SeedUsers
    /\ posts = [i \in {} |-> None]
    /\ nextPostId = 1
    /\ now = 0
    /\ pc = [p \in Procs |-> "idle"]
    /\ req = [p \in Procs |-> NoReq]
    /\ cur = [p \in Procs |-> 0]
    /\ loaded = [p \in Procs |-> None]
    /\ cache = [p \in Procs |-> EmptyCache]
    /\ tok = NoWallet
    /\ resp = [p \in Procs |-> NoResp]
    /\ case = [p \in Procs |-> NoCase]
    /\ signupOK = [e \in Emails |-> 1]
    /\ shared = EmptyCache
    /\ settings = DefaultSettings
    /\ writes = [u \in 1..2 |-> 0]

\* the post flows: create, list and delete by two registered accounts
Next ==
    \/ \E p \in Procs : ReceivePost(p)
    \/ \E p \in Procs : Auth(p)
    \/ \E p \in Procs : CreatePost(p)
    \/ \E p \in Procs : ListPosts(p)
    \/ \E p \in Procs : DeleteGet(p)
    \/ \E p \in Procs : DeleteCommit(p)

Spec == InitSeeded /\ [][Next]_vars

\* the account flows: signup and login on an empty database, with accounts
\* being deactivated
NextAuth ==
    \/ \E p \in Procs : ReceiveAuth(p)
    \/ \E p \in Procs : SignupCheck(p)
    \/ \E p \in Procs : SignupCreate(p)
    \/ \E p \in Procs : Login(p)
    \/ \E id \in DOMAIN users : Deactivate(id)

SpecAuth == Init /\ [][NextAuth]_vars

\* the token flows: login and identity resolution by two registered
\* accounts on one connection, under a moving clock and accounts being
\* deactivated
TokenProcs == {1}

NextToken ==
    \/ \E p \in TokenProcs : ReceiveToken(p)
    \/ \E p \in TokenProcs : Login(p)
    \/ \E p \in TokenProcs : Auth(p)
    \/ \E p \in TokenProcs : ListPosts(p)
    \/ \E id \in DOMAIN users : Deactivate(id)
    \/ Tick
    \/ Jump

SpecToken == InitSeeded /\ [][NextToken]_vars

-----------------------------------------------------------------------------
(* One PostService object serving call after call: services/post_service.py *)
(* with its _cache kept from one call to the next                           *)

MinuteTicks == 60 * TicksPerSec

\* PostService.create_post on cache c: the posts table, the cache and the
\* result after it
create_post(c, text, user_id, t) ==
    LET made == PostInsert(text, user_id, t)
    IN  [table |-> made.table,
         cache |-> Invalidate(c, cache_key(user_id)),
         result |-> [postID |-> made.id]]

\* delete_post removing the entry of the requester before it looks at the
\* post
delete_post_eager(c, post_id, user_id) ==
    LET post == post_get_by_id(post_id)
        swept == Invalidate(c, cache_key(user_id))
    IN  IF post = None \/ ~is_owner(post, user_id)
        THEN [table |-> posts, cache |-> swept, result |-> None]
        ELSE LET done == PostDelete(post)
             IN  [table |-> done.table, cache |-> swept,
                  result |-> IF done.ok THEN [postID |-> post_id] ELSE None]

\* PostService.delete_post on cache c
delete_post(c, post_id, user_id) ==
    LET post == post_get_by_id(post_id)
    IN  IF post = None \/ ~is_owner(post, user_id)
        THEN [table |-> posts, cache |-> c, result |-> None]
        ELSE LET done == PostDelete(post)
             IN  IF ~done.ok
                 THEN [table |-> done.table, cache |-> c, result |-> None]
                 ELSE [table |-> done.table,
                       cache |-> Invalidate(c, cache_key(user_id)),
                       result |-> [postID |-> post_id]]

\* the account that calls the service on connection p
Caller(p) == p

\* a write of owner u has gone through the service
Written(u) == [writes EXCEPT ![u] = @ + 1]

ServiceCreate(p) ==
    /\ nextPostId <= MaxPosts
    /\ \E x \in Texts :
         LET u == Caller(p)
             r == create_post(shared, validate_text_size(x), u, now)
         IN  /\ posts' = r.table
             /\ nextPostId' = nextPostId + 1
             /\ shared' = r.cache
             /\ writes' = Written(u)
             /\ Finish(p, create_response(r.result),
                       [Case("create", FALSE, r.result.postID, u)
                          EXCEPT !.at = now, !.stamp = writes[u] + 1])
    /\ UNCHANGED <<users, now, cache, tok, signupOK, settings>>

ServiceList(p) ==
    /\ \E order \in UserPostOrders(Caller(p)) :
           LET u == Caller(p)
               r == get_user_posts(shared, u, now, order)
           IN  /\ shared' = r.cache
               /\ Finish(p, Response(HTTP_200_OK, "", {}, r.body),
                         [Case("list", FALSE, 0, u)
                            EXCEPT !.at = r.cache[cache_key(u)].time,
                                   !.stamp = writes[u]])
    /\ UNCHANGED <<users, posts, nextPostId, now, cache, tok, signupOK,
                   settings, writes>>

ServiceDelete(p) ==
    /\ \E i \in 1..MaxPosts :
         LET u == Caller(p)
             r == delete_post(shared, i, u)
             kind == DeleteKind(i, u)
         IN  /\ posts' = r.table
             /\ shared' = r.cache
             /\ writes' = IF r.result = None THEN writes ELSE Written(u)
             /\ Finish(p, delete_response(r.result),
                       [Case(kind, FALSE, i, u)
                          EXCEPT !.at = now,
                                 !.stamp = IF r.result = None THEN writes[u]
                                           ELSE writes[u] + 1])
    /\ UNCHANGED <<users, nextPostId, now, cache, tok, signupOK, settings>>

\* the configured lifetime of a cache entry
CacheTTLTicks == settings.CACHE_EXPIRE_MINUTES * MinuteTicks

\* the clock of time.time() advances by a tick, or by the configured
\* lifetime of a cache entry
CacheTick ==
    /\ now % CacheTTLTicks < MaxSkew
    /\ now' = now + 1
    /\ UNCHANGED <<users, posts, nextPostId, pc, req, cur, loaded, cache, tok,
                   resp, case, signupOK, shared, settings, writes>>

CacheJump ==
    /\ now < MaxJumps * CacheTTLTicks
    /\ now' = now + CacheTTLTicks
    /\ UNCHANGED <<users, posts, nextPostId, pc, req, cur, loaded, cache, tok,
                   resp, case, signupOK, shared, settings, writes>>

\* two accounts calling one PostService object, one call after the other
NextService ==
    \/ \E p \in Procs : ServiceCreate(p)
    \/ \E p \in Procs : ServiceList(p)
    \/ \E p \in Procs : ServiceDelete(p)

SpecService == InitSeeded /\ [][NextService]_vars

\* one account calling one PostService object while the clock advances
CacheProcs == {1}

NextCache ==
    \/ \E p \in CacheProcs : ServiceCreate(p)
    \/ \E p \in CacheProcs : ServiceList(p)
    \/ \E p \in CacheProcs : ServiceDelete(p)
    \/ CacheTick
    \/ CacheJump

SpecCache == InitSeeded /\ [][NextCache]_vars

\* the same with CACHE_EXPIRE_MINUTES as the environment may set it
ConfiguredMinutes == {1, CACHE_EXPIRE_MINUTES}

InitConfigured ==
    /\ users = SeedUsers
    /\ posts = [i \in {} |-> None]
    /\ nextPostId = 1
    /\ now = 0
    /\ pc = [p \in Procs |-> "idle"]
    /\ req = [p \in Procs |-> NoReq]
    /\ cur = [p \in Procs |-> 0]
    /\ loaded = [p \in Procs |-> None]
    /\ cache = [p \in Procs |-> EmptyCache]
    /\ tok = NoWallet
    /\ resp = [p \in Procs |-> NoResp]
    /\ case = [p \in Procs |-> NoCase]
    /\ signupOK = [e \in Emails |-> 1]
    /\ shared = EmptyCache
    /\ settings \in {[DefaultSettings EXCEPT !.CACHE_EXPIRE_MINUTES = m] :
                       m \in ConfiguredMinutes}
    /\ writes = [u \in 1..2 |-> 0]

SpecCacheTTL == InitConfigured /\ [][NextCache]_vars

\* the clock of time.time() around the age of 300 seconds: it advances by a
\* tick from one tick before a multiple of the lifetime on, or by one tick
\* less than the lifetime
ExpiryTick ==
    /\ (now + 1) % (CACHE_SECONDS * TicksPerSec) <= MaxSkew
    /\ now' = now + 1
    /\ UNCHANGED <<users, posts, nextPostId, pc, req, cur, loaded, cache, tok,
                   resp, case, signupOK, shared, settings, writes>>

ExpiryJump ==
    /\ now + CACHE_SECONDS * TicksPerSec <= MaxJumps * CACHE_SECONDS * TicksPerSec
    /\ now' = now + CACHE_SECONDS * TicksPerSec - 1
    /\ UNCHANGED <<users, posts, nextPostId, pc, req, cur, loaded, cache, tok,
                   resp, case, signupOK, shared, settings, writes>>

\* one account calling one PostService object while its entry comes of age
NextExpiry ==
    \/ \E p \in CacheProcs : ServiceCreate(p)
    \/ \E p \in CacheProcs : ServiceList(p)
    \/ \E p \in CacheProcs : ServiceDelete(p)
    \/ ExpiryTick
    \/ ExpiryJump

SpecExpiry == InitSeeded /\ [][NextExpiry]_vars

-----------------------------------------------------------------------------
(* POST /posts with texts at the limits of PostBase and with white space    *)
(* around them                                                              *)

Repeat(c, n) == [i \in 1..n |-> c]

BoundaryTexts ==
    {<<>>, <<"a">>, Repeat("a", 10000), Repeat("a", 10001),
     <<" ">>, <<" ", "a", " ">>}

CreateProcs == {1}

CreateRequests ==
    {CreateReq(t, TRUE, x) : t \in SeedTokens, x \in
       IF nextPostId <= MaxPosts THEN BoundaryTexts ELSE {}}

ReceiveCreate(p) == \E r \in CreateRequests : Start(p, r)

NextCreate ==
    \/ \E p \in CreateProcs : ReceiveCreate(p)
    \/ \E p \in CreateProcs : Auth(p)
    \/ \E p \in CreateProcs : CreatePost(p)

SpecCreate == InitSeeded /\ [][NextCreate]_vars

-----------------------------------------------------------------------------
(* The payload size middleware of main.py in front of the post handlers     *)

Method(op) ==
    CASE op \in {"signup", "login", "create"} -> "POST"
      [] op = "delete" -> "DELETE"
      [] OTHER -> "GET"

\* payload_too_large_handler
PayloadTooLarge ==
    Response(HTTP_413_PAYLOAD_TOO_LARGE, "Payload too large", {}, None)

\* limit_upload_size: TRUE when the middleware raises instead of calling on
limit_upload_size(r, conf) ==
    /\ Method(r.op) = "POST"
    /\ r.declared
    /\ r.size > conf.MAX_PAYLOAD_SIZE

\* a POST whose body is over the size limit, from the request alone
Oversize(r) == Method(r.op) = "POST" /\ r.size > settings.MAX_PAYLOAD_SIZE

BodySizes == {16, MAX_PAYLOAD_SIZE, MAX_PAYLOAD_SIZE + 1}

UploadProcs == {1}

UploadRequests ==
    {[r EXCEPT !.size = n, !.declared = d] :
       r \in {CreateReq(t, TRUE, x) : t \in SeedTokens, x \in
                IF nextPostId <= MaxPosts THEN Texts ELSE {}}
              \cup {ListReq(t, TRUE) : t \in SeedTokens},
       n \in BodySizes, d \in BOOLEAN}

\* a request arrives on connection p and passes through the middleware
ReceiveUpload(p) ==
    \E r \in UploadRequests :
      IF limit_upload_size(r, settings)
      THEN /\ pc[p] = "idle"
           /\ Finish(p, PayloadTooLarge, Case("too_large", r.issued, 0, 0))
           /\ UNCHANGED <<users, posts, nextPostId, now, cache, tok, signupOK,
                          shared, settings, writes>>
      ELSE Start(p, r)

NextUpload ==
    \/ \E p \in UploadProcs : ReceiveUpload(p)
    \/ \E p \in UploadProcs : Auth(p)
    \/ \E p \in UploadProcs : CreatePost(p)
    \/ \E p \in UploadProcs : ListPosts(p)

SpecUpload == InitSeeded /\ [][NextUpload]_vars

-----------------------------------------------------------------------------
(* The database failing under a request: a query or a commit raises an      *)
(* SQLAlchemyError that is not an IntegrityError (a lost connection, a      *)
(* locked database)                                                         *)

SQLAlchemyError == [error |-> "SQLAlchemyError"]

\* an exception no except clause and no handler of main.py takes: it leaves
\* the application, and the server answers for it
Unhandled(exc) == Response(500, "Internal Server Error", {}, exc)

\* the response to connection p is the exception exc as raised
Escapes(p, exc) ==
    Finish(p, Unhandled(exc), Case("store_failure", req[p].issued, 0, cur[p]))

\* UserRepository.get_by_email raises in AuthService.signup
FaultSignupCheck(p) ==
    /\ pc[p] = "signup"
    /\ UserCreate_valid(req[p].password)
    /\ Escapes(p, SQLAlchemyError)
    /\ UNCHANGED <<users, posts, nextPostId, now, cache, tok, signupOK, shared,
                   settings, writes>>

\* the commit of UserRepository.create raises: except IntegrityError does
\* not take it
FaultSignupCreate(p) ==
    /\ pc[p] = "signup_create"
    /\ Escapes(p, SQLAlchemyError)
    /\ UNCHANGED <<users, posts, nextPostId, now, cache, tok, signupOK, shared,
                   settings, writes>>

\* UserRepository.get_by_email raises in AuthService.login
FaultLogin(p) ==
    /\ pc[p] = "login"
    /\ UserLogin_valid(req[p].password)
    /\ Escapes(p, SQLAlchemyError)
    /\ UNCHANGED <<users, posts, nextPostId, now, cache, tok, signupOK, shared,
                   settings, writes>>

\* UserRepository.get_by_id raises in AuthService.get_current_user, which
\* calls it for a token that verifies and has a numeric subject
FaultAuth(p) ==
    /\ pc[p] = "auth"
    /\ LET payload == verify_token(req[p].token, now)
       IN  payload # None /\ payload.sub # <<>> /\ IsNumeric(payload.sub)
    /\ Escapes(p, SQLAlchemyError)
    /\ UNCHANGED <<users, posts, nextPostId, now, cache, tok, signupOK, shared,
                   settings, writes>>

\* the commit of PostRepository.create raises: the repository rolls back and
\* returns None, create_post returns None, add_post answers 400
FaultCreate(p) ==
    /\ pc[p] = "create"
    /\ PostCreate_valid(req[p].text)
    /\ Finish(p, create_response(None),
              Case("store_failure", req[p].issued, 0, cur[p]))
    /\ UNCHANGED <<users, posts, nextPostId, now, cache, tok, signupOK, shared,
                   settings, writes>>

\* PostRepository.get_user_posts raises in PostService.get_user_posts
FaultList(p) ==
    /\ pc[p] = "list"
    /\ Escapes(p, SQLAlchemyError)
    /\ UNCHANGED <<users, posts, nextPostId, now, cache, tok, signupOK, shared,
                   settings, writes>>

\* PostRepository.get_by_id raises in PostService.delete_post
FaultDeleteGet(p) ==
    /\ pc[p] = "delete_get"
    /\ Escapes(p, SQLAlchemyError)
    /\ UNCHANGED <<users, posts, nextPostId, now, cache, tok, signupOK, shared,
                   settings, writes>>

\* the commit of PostRepository.delete raises: the repository rolls back and
\* returns False, delete_post returns None, the controller answers 404
FaultDeleteCommit(p) ==
    /\ pc[p] = "delete_commit"
    /\ Finish(p, delete_response(None),
              Case("store_failure", req[p].issued, req[p].post_id, cur[p]))
    /\ UNCHANGED <<users, posts, nextPostId, now, cache, tok, signupOK, shared,
                   settings, writes>>

FaultProcs == {1}

\* a signup or a login of an account, or a request with the token issued last
FaultRequests ==
    {SignupReq(e, PW1) : e \in Emails}
    \cup {LoginReq(e, PW1) : e \in Emails}
    \cup {ListReq(t, TRUE) : t \in WalletTokens}
    \cup {CreateReq(t, TRUE, x) : t \in WalletTokens, x \in
            IF nextPostId <= MaxPosts THEN Texts ELSE {}}
    \cup {DeleteReq(t, TRUE, i) : t \in WalletTokens, i \in 1..MaxPosts}

ReceiveFault(p) == \E r \in FaultRequests : Start(p, r)

NextFault ==
    \/ \E p \in FaultProcs : ReceiveFault(p)
    \/ \E p \in FaultProcs : SignupCheck(p)
    \/ \E p \in FaultProcs : SignupCreate(p)
    \/ \E p \in FaultProcs : Login(p)
    \/ \E p \in FaultProcs : Auth(p)
    \/ \E p \in FaultProcs : CreatePost(p)
    \/ \E p \in FaultProcs : ListPosts(p)
    \/ \E p \in FaultProcs : DeleteGet(p)
    \/ \E p \in FaultProcs : DeleteCommit(p)
    \/ \E p \in FaultProcs : FaultSignupCheck(p)
    \/ \E p \in FaultProcs : FaultSignupCreate(p)
    \/ \E p \in FaultProcs : FaultLogin(p)
    \/ \E p \in FaultProcs : FaultAuth(p)
    \/ \E p \in FaultProcs : FaultCreate(p)
    \/ \E p \in FaultProcs : FaultList(p)
    \/ \E p \in FaultProcs : FaultDeleteGet(p)
    \/ \E p \in FaultProcs : FaultDeleteCommit(p)

SpecFault == Init /\ [][NextFault]_vars

-----------------------------------------------------------------------------
(* Logins and bearer tokens that are refused                                *)

\* the emails of the two accounts and one that no account has
RefusalEmails == Emails \cup {"c@x.com"}

\* the tokens of CraftedTokens and a signed one whose account is gone
RefusalTokens == CraftedTokens \cup {Signed(str(3), "c@x.com", FarFuture)}

RefusalRequests ==
    {LoginReq(e, w) : e \in RefusalEmails, w \in Passwords}
    \cup {ListReq(t, FALSE) : t \in RefusalTokens}

ReceiveRefusal(p) == \E r \in RefusalRequests : Start(p, r)

NextRefusal ==
    \/ \E p \in Procs : ReceiveRefusal(p)
    \/ \E p \in Procs : Login(p)
    \/ \E p \in Procs : Auth(p)
    \/ \E p \in Procs : ListPosts(p)
    \/ \E id \in DOMAIN users : Deactivate(id)

SpecRefusal == InitSeeded /\ [][NextRefusal]_vars

-----------------------------------------------------------------------------
(* One PostService object over a database whose commits may fail            *)

\* create_post that removes the entry of the owner before it looks at what
\* the repository returned
create_post_failing_invalidate(c, user_id) ==
    [table |-> posts, cache |-> Invalidate(c, cache_key(user_id)),
     result |-> None]

\* PostService.create_post when the commit of PostRepository.create raises:
\* the repository rolls back and returns None, and so does create_post
create_post_failing(c, user_id) ==
    [table |-> posts, cache |-> c, result |-> None]

\* delete_post that takes the False of the repository for a success
delete_post_failing_unchecked(c, post_id, user_id) ==
    [table |-> posts, cache |-> Invalidate(c, cache_key(user_id)),
     result |-> [postID |-> post_id]]

\* PostService.delete_post of a post of user_id when the commit of
\* PostRepository.delete raises: the repository rolls back and returns
\* False, and delete_post returns None
delete_post_failing(c, post_id, user_id) ==
    [table |-> posts, cache |-> c, result |-> None]

ServiceCreateFault(p) ==
    /\ \E x \in Texts :
         LET u == Caller(p)
             r == create_post_failing(shared, u)
         IN  /\ posts' = r.table
             /\ shared' = r.cache
             /\ Finish(p, create_response(r.result),
                       [Case("create_failed", FALSE, 0, u)
                          EXCEPT !.at = now, !.stamp = writes[u]])
    /\ UNCHANGED <<users, nextPostId, now, cache, tok, signupOK, settings,
                   writes>>

ServiceDeleteFault(p) ==
    /\ \E i \in 1..MaxPosts :
         LET u == Caller(p)
             r == delete_post_failing(shared, i, u)
         IN  /\ DeleteKind(i, u) = "delete_owned"
             /\ posts' = r.table
             /\ shared' = r.cache
             /\ writes' = IF r.result = None THEN writes ELSE Written(u)
             /\ Finish(p, delete_response(r.result),
                       [Case("delete_failed", FALSE, i, u)
                          EXCEPT !.at = now, !.stamp = writes[u]])
    /\ UNCHANGED <<users, nextPostId, now, cache, tok, signupOK, settings>>

NextServiceFault ==
    \/ \E p \in Procs : ServiceCreate(p)
    \/ \E p \in Procs : ServiceList(p)
    \/ \E p \in Procs : ServiceDelete(p)
    \/ \E p \in Procs : ServiceCreateFault(p)
    \/ \E p \in Procs : ServiceDeleteFault(p)

SpecServiceFault == InitSeeded /\ [][NextServiceFault]_vars

-----------------------------------------------------------------------------
(* One PostService object called by two accounts while seconds pass         *)

\* the clock passes into the next second
ListingTick ==
    /\ now < TicksPerSec
    /\ now' = now + TicksPerSec
    /\ UNCHANGED <<users, posts, nextPostId, pc, req, cur, loaded, cache, tok,
                   resp, case, signupOK, shared, settings, writes>>

NextListing ==
    \/ \E p \in Procs : ServiceCreate(p)
    \/ \E p \in Procs : ServiceList(p)
    \/ \E p \in Procs : ServiceDelete(p)
    \/ ListingTick

SpecListing == InitSeeded /\ [][NextListing]_vars

-----------------------------------------------------------------------------
(* Signups and logins while seconds pass                                    *)

IssueProcs == {1}

\* the clock of utcnow() advances by one tick
IssueTick ==
    /\ now < MaxSkew
    /\ now' = now + 1
    /\ UNCHANGED <<users, posts, nextPostId, pc, req, cur, loaded, cache, tok,
                   resp, case, signupOK, shared, settings, writes>>

NextIssue ==
    \/ \E p \in IssueProcs : ReceiveAuth(p)
    \/ \E p \in IssueProcs : SignupCheck(p)
    \/ \E p \in IssueProcs : SignupCreate(p)
    \/ \E p \in IssueProcs : Login(p)
    \/ IssueTick

SpecIssue == Init /\ [][NextIssue]_vars

-----------------------------------------------------------------------------
(* The signing secret replaced while tokens are outstanding                 *)

RotateProcs == {1}

\* the process is started again with another SECRET_KEY in its environment
Rotate ==
    /\ \A p \in Procs : pc[p] = "idle"
    /\ settings.SECRET_KEY = SECRET_KEY
    /\ settings' = [settings EXCEPT !.SECRET_KEY = "rotated-secret-key"]
    /\ UNCHANGED <<users, posts, nextPostId, now, pc, req, cur, loaded, cache,
                   tok, resp, case, signupOK, shared, writes>>

NextRotate ==
    \/ \E p \in RotateProcs : ReceiveToken(p)
    \/ \E p \in RotateProcs : Login(p)
    \/ \E p \in RotateProcs : Auth(p)
    \/ \E p \in RotateProcs : ListPosts(p)
    \/ Rotate

SpecRotate == InitSeeded /\ [][NextRotate]_vars

-----------------------------------------------------------------------------
(* POST /auth/signup with passwords at the limits of UserCreate             *)

BoundaryPasswords ==
    {<<"p", "a", "s", "s", "1", "2", "3">>,
     PW1,
     Repeat("a", 127) \o <<"1">>,
     Repeat("a", 128) \o <<"1">>,
     <<"p", "a", "s", "s", "w", "o", "r", "d">>,
     <<"1", "2", "3", "4", "5", "6", "7", "8">>}

PolicyProcs == {1}

PolicyRequests == {SignupReq(e, w) : e \in Emails, w \in BoundaryPasswords}

ReceivePolicy(p) == \E r \in PolicyRequests : Start(p, r)

NextPolicy ==
    \/ \E p \in PolicyProcs : ReceivePolicy(p)
    \/ \E p \in PolicyProcs : SignupCheck(p)
    \/ \E p \in PolicyProcs : SignupCreate(p)

SpecPolicy == Init /\ [][NextPolicy]_vars

-----------------------------------------------------------------------------
(* Signups and logins with passwords of up to 128 characters                *)

\* two passwords of 73 characters that differ in the last one only
LongPasswords ==
    {Repeat("a", 71) \o <<"1", c>> : c \in {"x", "w"}}

CredentialPasswords == {PW1} \cup LongPasswords

CredentialProcs == {1}

CredentialRequests ==
    {SignupReq(e, w) : e \in Emails, w \in CredentialPasswords}
    \cup {LoginReq(e, w) : e \in Emails, w \in CredentialPasswords}

ReceiveCredential(p) == \E r \in CredentialRequests : Start(p, r)

NextCredential ==
    \/ \E p \in CredentialProcs : ReceiveCredential(p)
    \/ \E p \in CredentialProcs : SignupCheck(p)
    \/ \E p \in CredentialProcs : SignupCreate(p)
    \/ \E p \in CredentialProcs : Login(p)

SpecCredential == Init /\ [][NextCredential]_vars

-----------------------------------------------------------------------------
(* One PostService object called from several threads at once: the steps of *)
(* services/post_service.py interleave at the accesses to the database      *)

ServiceStage(op) ==
    CASE op = "create" -> "svc_create"
      [] op = "list" -> "svc_list"
      [] op = "delete" -> "svc_delete"

\* the calls a thread may make for an account
ServiceCalls ==
    {ListReq(NoToken, FALSE)}
    \cup {CreateReq(NoToken, FALSE, x) : x \in
            IF nextPostId + CreatesInFlight <= MaxPosts THEN Texts ELSE {}}
    \cup {DeleteReq(NoToken, FALSE, i) : i \in 1..MaxPosts}

\* thread p calls a method of the service for account u
RaceCall(p) ==
    /\ pc[p] = "idle"
    /\ \E r \in ServiceCalls, u \in DOMAIN users :
         /\ req' = [req EXCEPT ![p] = r]
         /\ cur' = [cur EXCEPT ![p] = u]
         /\ pc' = [pc EXCEPT ![p] = ServiceStage(r.op)]
    /\ resp' = [resp EXCEPT ![p] = NoResp]
    /\ case' = [case EXCEPT ![p] = NoCase]
    /\ UNCHANGED <<users, posts, nextPostId, now, loaded, cache, tok, signupOK,
                   shared, settings, writes>>

\* get_user_posts, lines 28-39: the time is taken and the cache is looked up
RaceListCheck(p) ==
    /\ pc[p] = "svc_list"
    /\ LET key == cache_key(cur[p])
       IN  IF cache_fresh(shared, key, now)
           THEN Finish(p, Response(HTTP_200_OK, "", {},
                                   [posts |-> shared[key].data,
                                    total |-> Len(shared[key].data),
                                    cached |-> TRUE]),
                       Case("list", FALSE, 0, cur[p]))
           ELSE /\ loaded' = [loaded EXCEPT ![p] = [time |-> now, data |-> <<>>]]
                /\ pc' = [pc EXCEPT ![p] = "svc_list_fetch"]
                /\ UNCHANGED <<req, cur, resp, case>>
    /\ UNCHANGED <<users, posts, nextPostId, now, cache, tok, signupOK, shared,
                   settings, writes>>

\* get_user_posts, lines 42-43: the posts are fetched from the database
RaceListFetch(p) ==
    /\ pc[p] = "svc_list_fetch"
    /\ \E order \in UserPostOrders(cur[p]) :
         loaded' = [loaded EXCEPT ![p].data =
                      [i \in 1..Len(order) |-> PostResponse(order[i])]]
    /\ pc' = [pc EXCEPT ![p] = "svc_list_fill"]
    /\ UNCHANGED <<users, posts, nextPostId, now, req, cur, cache, tok, resp,
                   case, signupOK, shared, settings, writes>>

\* the entry stamped with the time at which it is written
RaceListFillLate(p) ==
    /\ pc[p] = "svc_list_fill"
    /\ LET key == cache_key(cur[p])
       IN  /\ shared' = [k \in DOMAIN shared \cup {key} |->
                           IF k = key
                           THEN [time |-> now, data |-> loaded[p].data]
                           ELSE shared[k]]
           /\ Finish(p, Response(HTTP_200_OK, "", {},
                                 [posts |-> loaded[p].data,
                                  total |-> Len(loaded[p].data),
                                  cached |-> FALSE]),
                     Case("list", FALSE, 0, cur[p]))
    /\ UNCHANGED <<users, posts, nextPostId, now, cache, tok, signupOK,
                   settings, writes>>

\* get_user_posts, lines 46-52: the entry is written and the posts returned
RaceListFill(p) ==
    /\ pc[p] = "svc_list_fill"
    /\ LET key == cache_key(cur[p])
       IN  /\ shared' = [k \in DOMAIN shared \cup {key} |->
                           IF k = key THEN loaded[p] ELSE shared[k]]
           /\ Finish(p, Response(HTTP_200_OK, "", {},
                                 [posts |-> loaded[p].data,
                                  total |-> Len(loaded[p].data),
                                  cached |-> FALSE]),
                     Case("list", FALSE, 0, cur[p]))
    /\ UNCHANGED <<users, posts, nextPostId, now, cache, tok, signupOK,
                   settings, writes>>

\* create_post, lines 15-17: the post is inserted and committed
RaceCreatePersist(p) ==
    /\ pc[p] = "svc_create"
    /\ LET made == PostInsert(validate_text_size(req[p].text), cur[p], now)
       IN  /\ posts' = made.table
           /\ nextPostId' = nextPostId + 1
           /\ loaded' = [loaded EXCEPT ![p] = [postID |-> made.id]]
    /\ pc' = [pc EXCEPT ![p] = "svc_create_inval"]
    /\ UNCHANGED <<users, now, req, cur, cache, tok, resp, case, signupOK,
                   shared, settings, writes>>

\* create_post, lines 20-24: the entry of the owner is removed
RaceCreateInvalidate(p) ==
    /\ pc[p] = "svc_create_inval"
    /\ shared' = Invalidate(shared, cache_key(cur[p]))
    /\ writes' = Written(cur[p])
    /\ Finish(p, create_response(loaded[p]),
              Case("create", FALSE, loaded[p].postID, cur[p]))
    /\ UNCHANGED <<users, posts, nextPostId, now, cache, tok, signupOK,
                   settings>>

\* delete_post, lines 56-61: the post is loaded and its owner compared
RaceDeleteGet(p) ==
    /\ pc[p] = "svc_delete"
    /\ LET post == post_get_by_id(req[p].post_id)
           kind == DeleteKind(req[p].post_id, cur[p])
       IN  IF post = None \/ ~is_owner(post, cur[p])
           THEN Finish(p, delete_response(None),
                       Case(kind, FALSE, req[p].post_id, cur[p]))
           ELSE /\ loaded' = [loaded EXCEPT ![p] = post]
                /\ pc' = [pc EXCEPT ![p] = "svc_delete_commit"]
                /\ UNCHANGED <<req, cur, resp, case>>
    /\ UNCHANGED <<users, posts, nextPostId, now, cache, tok, signupOK, shared,
                   settings, writes>>

\* delete_post, lines 63-64: the post is deleted and the delete committed
RaceDeleteCommit(p) ==
    /\ pc[p] = "svc_delete_commit"
    /\ LET done == PostDelete(loaded[p])
       IN  /\ posts' = done.table
           /\ IF done.ok
              THEN /\ pc' = [pc EXCEPT ![p] = "svc_delete_inval"]
                   /\ UNCHANGED <<req, cur, loaded, resp, case>>
              ELSE Finish(p, delete_response(None),
                          Case("delete_raced", FALSE, req[p].post_id, cur[p]))
    /\ UNCHANGED <<users, nextPostId, now, cache, tok, signupOK, shared,
                   settings, writes>>

\* delete_post, lines 67-71: the entry of the owner is removed
RaceDeleteInvalidate(p) ==
    /\ pc[p] = "svc_delete_inval"
    /\ shared' = Invalidate(shared, cache_key(cur[p]))
    /\ writes' = Written(cur[p])
    /\ Finish(p, delete_response([postID |-> req[p].post_id]),
              Case("delete_owned", FALSE, req[p].post_id, cur[p]))
    /\ UNCHANGED <<users, posts, nextPostId, now, cache, tok, signupOK,
                   settings>>

NextRace ==
    \/ \E p \in Procs : RaceCall(p)
    \/ \E p \in Procs : RaceListCheck(p)
    \/ \E p \in Procs : RaceListFetch(p)
    \/ \E p \in Procs : RaceListFill(p)
    \/ \E p \in Procs : RaceCreatePersist(p)
    \/ \E p \in Procs : RaceCreateInvalidate(p)
    \/ \E p \in Procs : RaceDeleteGet(p)
    \/ \E p \in Procs : RaceDeleteCommit(p)
    \/ \E p \in Procs : RaceDeleteInvalidate(p)

SpecRace == InitSeeded /\ [][NextRace]_vars

\* the clock of time.time() advances while a List is at the database
FillTick ==
    /\ \E p \in CacheProcs : pc[p] \in {"svc_list_fetch", "svc_list_fill"}
    /\ now < MaxSkew
    /\ now' = now + 1
    /\ UNCHANGED <<users, posts, nextPostId, pc, req, cur, loaded, cache, tok,
                   resp, case, signupOK, shared, settings, writes>>

\* one thread calling the service, step by step, with a fetch that takes time
NextFill ==
    \/ \E p \in CacheProcs : RaceCall(p)
    \/ \E p \in CacheProcs : RaceListCheck(p)
    \/ \E p \in CacheProcs : RaceListFetch(p)
    \/ \E p \in CacheProcs : RaceListFill(p)
    \/ \E p \in CacheProcs : RaceCreatePersist(p)
    \/ \E p \in CacheProcs : RaceCreateInvalidate(p)
    \/ \E p \in CacheProcs : RaceDeleteGet(p)
    \/ \E p \in CacheProcs : RaceDeleteCommit(p)
    \/ \E p \in CacheProcs : RaceDeleteInvalidate(p)
    \/ FillTick

SpecFill == InitSeeded /\ [][NextFill]_vars

-----------------------------------------------------------------------------
(* Claims about the account flows, checked under SpecAuth                   *)

Conflict ==
    Response(HTTP_400_BAD_REQUEST,
             "Email already registered or registration failed", {}, None)

BearsToken(r) == r.body # None /\ r.body.token.kind = "jwt"

\* C1: a Signup for an email that is not registered succeeds with 201 and a
\* token, it succeeds at most once per email, and every Signup for an email
\* that is registered (whatever the password, whatever ran in between) is
\* answered 400 Conflict.
C1_SignupOnce ==
    /\ \A e \in Emails : signupOK[e] <= 1
    /\ \A p \in Procs :
         /\ case[p].kind = "signup_fresh" =>
              /\ resp[p].status = HTTP_201_CREATED
              /\ BearsToken(resp[p])
              /\ signupOK[users[case[p].user_id].email] = 1
         /\ case[p].kind \in {"signup_taken", "signup_raced"} =>
              resp[p] = Conflict

\* one connection was answered 201 for an email and the other, later or
\* concurrently, 400 for the same email
C1_Witness ==
    \E p, q \in Procs :
      /\ case[p].kind = "signup_fresh" /\ resp[p].status = HTTP_201_CREATED
      /\ case[q].kind = "signup_taken" /\ resp[q].status = HTTP_400_BAD_REQUEST
      /\ case[p].user_id = case[q].user_id

\* C2: no two accounts ever share an email; of two Signups for one email
\* that both pass the existence check before either inserts, the one whose
\* INSERT comes second is answered 400 Conflict; and a Signup answered 400
\* leaves the users table as it was.
C2_EmailUnique ==
    /\ [](\A i, j \in DOMAIN users :
            i # j => users[i].email # users[j].email)
    /\ [](\A p \in Procs : case[p].kind = "signup_raced" => resp[p] = Conflict)
    /\ [][\A p \in Procs :
            (resp[p] = NoResp /\ resp'[p].status = HTTP_400_BAD_REQUEST)
              => users' = users]_vars

\* a Signup passed the existence check, lost the race for the INSERT and was
\* answered 400, with one account holding the email
C2_Witness ==
    \E p \in Procs :
      /\ case[p].kind = "signup_raced"
      /\ resp[p] = Conflict
      /\ Cardinality({i \in DOMAIN users :
                        users[i].email = users[case[p].user_id].email}) = 1

LoginFailures ==
    {"login_unregistered", "login_wrong_password", "login_inactive",
     "login_inactive_wrong_password"}

\* C4: a Login with an email that is not registered, with a wrong password,
\* or to an inactive account (with the right password or a wrong one) is
\* answered 401 with no token, and any two such answers are the same
\* response.
C4_LoginFailuresAlike ==
    \A p, q \in Procs :
      case[p].kind \in LoginFailures =>
        /\ resp[p].status = HTTP_401_UNAUTHORIZED
        /\ resp[p].body = None
        /\ case[q].kind \in LoginFailures => resp[p] = resp[q]

\* a Login to an inactive account with its password and a Login with an
\* unregistered email have both been answered
C4_Witness ==
    \E p, q \in Procs :
      /\ case[p].kind = "login_inactive"
      /\ case[q].kind \in {"login_unregistered", "login_wrong_password"}
      /\ resp[p].status = HTTP_401_UNAUTHORIZED
      /\ resp[q].status = HTTP_401_UNAUTHORIZED

-----------------------------------------------------------------------------
(* Claims about the token flows, checked under SpecToken                    *)

\* the token issued last has been issued and its lifetime has not elapsed
Unexpired == tok.token # NoToken /\ now < tok.at + TokenTTLTicks

\* C3: a Login with the email and the password of a registered active
\* account is answered 200 with a token whose subject is the id of the
\* account that owns the email; and the resolution of that token, made
\* before its lifetime has elapsed and with the account still active, lets
\* the request through as that very account.
C3_LoginThenResolve ==
    /\ [](\A p \in TokenProcs :
            case[p].kind = "login_ok" =>
              /\ resp[p].status = HTTP_200_OK
              /\ BearsToken(resp[p])
              /\ resp[p].body.token = tok.token
              /\ tok.token.sub = str(case[p].user_id)
              /\ users[case[p].user_id].email = tok.email)
    /\ [][\A p \in TokenProcs :
            (/\ pc[p] = "auth" /\ pc'[p] # "auth"
             /\ req[p].issued
             /\ Unexpired
             /\ users[tok.id].is_active)
            => /\ pc'[p] = HandlerStage(req[p].op)
               /\ cur'[p] = tok.id
               /\ users[cur'[p]].email = tok.email]_vars

\* a request carrying the token of a login made earlier has been resolved to
\* the account that logged in
C3_Witness ==
    \E p \in TokenProcs :
      /\ pc[p] = "list"
      /\ req[p].issued
      /\ req[p].token = tok.token
      /\ cur[p] = tok.id
      /\ tok.at < now
      /\ Unexpired

\* C5 as the specification states it: the token issued last verifies, with
\* the id of its account as subject, at every instant before its lifetime
\* has elapsed, and does not verify at any instant after.
C5_RoundTripAsStated ==
    tok.token # NoToken =>
      /\ now < tok.at + TokenTTLTicks =>
           /\ verify_token(tok.token, now) # None
           /\ verify_token(tok.token, now).sub = str(tok.id)
      /\ now > tok.at + TokenTTLTicks =>
           verify_token(tok.token, now) = None

\* what the code guarantees about the round trip: the token verifies up to
\* and including the instant its lifetime elapses, and no longer verifies
\* once a further whole second has gone by
C5_RoundTripToTheSecond ==
    tok.token # NoToken =>
      /\ now <= tok.at + TokenTTLTicks =>
           /\ verify_token(tok.token, now) # None
           /\ verify_token(tok.token, now).sub = str(tok.id)
      /\ now >= tok.at + TokenTTLTicks + TicksPerSec =>
           verify_token(tok.token, now) = None

ResolverRefusals == {"auth_invalid_token", "auth_no_account", "auth_inactive"}

-----------------------------------------------------------------------------
(* Claims about the post flows, checked under Spec                          *)

NotFound ==
    Response(HTTP_404_NOT_FOUND,
             "Post not found or you don't have permission to delete it",
             {}, None)

\* the request answered on p was answered before the one answered on q
Before(p, q) == p \in case[q].after /\ q \notin case[p].after

\* C7: a handler of a protected operation runs only for a caller whose
\* identity has been resolved to an account; and the step that refuses a
\* bearer token answers 401 with the Bearer challenge and leaves the posts
\* table and every cache as they were, the request ending there.
C7_ResolveFirst ==
    /\ [](\A p \in Procs :
            /\ pc[p] \in HandlerStages => cur[p] \in DOMAIN users
            /\ case[p].kind = "auth_invalid_token" => resp[p] = Unauthorized)
    /\ [][\A p \in Procs :
            (pc[p] = "auth" /\ get_current_user(req[p].token, now) = None) =>
              \/ pc'[p] = "auth"
              \/ /\ pc'[p] = "idle"
                 /\ resp'[p].status = HTTP_401_UNAUTHORIZED
                 /\ "WWW-Authenticate: Bearer" \in resp'[p].headers
                 /\ UNCHANGED <<posts, nextPostId, cache>>]_vars
    /\ [][posts' # posts =>
            \E p \in Procs : /\ pc[p] \in {"create", "delete_commit"}
                             /\ cur[p] \in DOMAIN users]_vars

\* a create, a list or a delete without a valid token was answered 401 while
\* the posts table held a post
C7_Witness ==
    \E p \in Procs :
      /\ case[p].kind = "auth_invalid_token"
      /\ resp[p] = Unauthorized
      /\ DOMAIN posts # {}

\* C8: the Delete of a post by its owner is answered 200 with the id of the
\* post and the post is gone from the table; a Delete of the same id by the
\* same account, handled after that answer, is answered 404 and leaves the
\* posts table as it was.
C8_DeleteTwice ==
    /\ [](\A p \in Procs :
            case[p].kind = "delete_owned" =>
              /\ resp[p].status = HTTP_200_OK
              /\ resp[p].body.postID = case[p].post_id
              /\ case[p].post_id \notin DOMAIN posts)
    /\ [][\A p, q \in Procs :
            (/\ case[p].kind = "delete_owned"
             /\ pc[q] = "delete_get" /\ pc'[q] # "delete_get"
             /\ req[q].post_id = case[p].post_id
             /\ cur[q] = case[p].user_id)
            => /\ pc'[q] = "idle"
               /\ resp'[q] = NotFound
               /\ UNCHANGED <<posts, nextPostId>>]_vars

\* the owner deleted a post and then asked for the same Delete again, which
\* was answered 404
C8_Witness ==
    \E p, q \in Procs :
      /\ case[p].kind = "delete_owned" /\ resp[p].status = HTTP_200_OK
      /\ case[q].kind = "delete_absent" /\ resp[q] = NotFound
      /\ case[q].post_id = case[p].post_id
      /\ case[q].user_id = case[p].user_id
      /\ Before(p, q)

\* the ids of the posts a List answered with
Listed(r) == {r.body.posts[k].postID : k \in 1..Len(r.body.posts)}

C10_NotOwnerLikeAbsent ==
    \A p, q \in Procs :
      (case[p].kind = "delete_not_owner" /\ case[q].kind = "delete_absent") =>
        /\ resp[p].status = HTTP_404_NOT_FOUND
        /\ resp[p] = resp[q]

\* a Delete by a non-owner and a Delete of an id without a post have both
\* been answered
C10_Witness ==
    \E p, q \in Procs :
      /\ case[p].kind = "delete_not_owner"
      /\ case[q].kind = "delete_absent"
      /\ resp[p].status = HTTP_404_NOT_FOUND
      /\ resp[q].status = HTTP_404_NOT_FOUND
      /\ case[p].post_id \in DOMAIN posts

-----------------------------------------------------------------------------
(* Claims about the cache of one PostService object whose calls are made    *)
(* one after the other, each connection calling for its own account;        *)
(* checked under SpecService, and under SpecCache where the clock advances  *)

SuccessfulWrite(p) ==
    \/ case[p].kind = "create" /\ resp[p].status = HTTP_201_CREATED
    \/ case[p].kind = "delete_owned" /\ resp[p].status = HTTP_200_OK

C12_SecondListCached ==
    [][\A p \in CacheProcs :
         (/\ case[p].kind = "list" /\ case'[p].kind = "list"
          /\ <<resp'[p], case'[p]>> # <<resp[p], case[p]>>
          /\ now - case[p].at < CacheTTLTicks)
         => /\ resp'[p].body.cached
            /\ resp'[p].body.posts = resp[p].body.posts
            /\ resp'[p].body.total = resp[p].body.total]_vars

\* a List answered from a snapshot taken earlier, with a post in it
C12_Witness ==
    \E p \in CacheProcs :
      /\ case[p].kind = "list"
      /\ resp[p].body.cached
      /\ resp[p].body.total >= 1
      /\ case[p].at < now
      /\ now - case[p].at < CacheTTLTicks

\* C15: when a Create or a Delete that changed the posts of an account
\* returns, the cache has no entry under the key of that account.
C15_WriteRemovesEntry ==
    [][\A u \in DOMAIN users :
         writes'[u] # writes[u] => cache_key(u) \notin DOMAIN shared']_vars

\* a Create has returned, the cache has no entry for its owner and still
\* has the entry of the other account
C15_Witness ==
    \E p, q \in Procs :
      /\ case[p].kind = "create"
      /\ case[p].stamp = writes[Caller(p)]
      /\ case[p].stamp >= 2
      /\ cache_key(Caller(p)) \notin DOMAIN shared
      /\ q # p
      /\ cache_key(Caller(q)) \in DOMAIN shared

\* C14 as the specification states it, checked under SpecCacheTTL: a List
\* that finds an entry older than the configured lifetime, whatever
\* CACHE_EXPIRE_MINUTES is set to, fetches from the store, answers
\* cached=false and replaces the entry.
C14_ConfiguredTTLAsStated ==
    [][\A p \in CacheProcs :
         LET key == cache_key(Caller(p))
         IN  (/\ case'[p].kind = "list"
              /\ <<resp'[p], case'[p]>> # <<resp[p], case[p]>>
              /\ key \in DOMAIN shared
              /\ now - shared[key].time > CacheTTLTicks)
             => /\ ~resp'[p].body.cached
                /\ shared'[key].time = now
                /\ Listed(resp'[p]) = UserPostIds(Caller(p))]_vars

-----------------------------------------------------------------------------
(* Claims about the post flows end to end, checked under Spec               *)

\* connection p has the answer of a GET /posts of account u
ListAnswered(p, u) == case[p].kind = "list" /\ case[p].user_id = u

\* C13 as the specification states it: with one post created by an account,
\* the first GET /posts of the account answers total 1 and cached false, a
\* second GET /posts after it with no write in between answers total 1 and
\* cached true, the DELETE of the post answers 200, and a GET /posts
\* after the delete answers the empty list with total 0.
C13_ScenarioAsStated ==
    \A u \in DOMAIN users : \A p, q \in Procs :
      /\ (/\ nextPostId = 2
          /\ ListAnswered(p, u) /\ ListAnswered(q, u) /\ Before(p, q)
          /\ resp[p].body.total = 1 /\ ~resp[p].body.cached
          /\ UserPostIds(u) = {1})
           => (resp[q].body.total = 1 /\ resp[q].body.cached)
      /\ (case[p].kind = "delete_owned" /\ case[p].user_id = u)
           => resp[p].status = HTTP_200_OK
      /\ (/\ nextPostId = 2
          /\ case[p].kind = "delete_owned" /\ case[p].user_id = u
          /\ ListAnswered(q, u) /\ Before(p, q))
           => (resp[q].body.posts = <<>> /\ resp[q].body.total = 0)

-----------------------------------------------------------------------------
(* Claims about the text of a post, checked under SpecCreate                *)

\* C17: a POST /posts whose text has exactly 10000 characters is answered
\* 201 and its post is stored; one whose text has 10001 characters, or is
\* the empty string, is answered with the validation error and the posts
\* table stays as it was.
C17_TextLengthLimits ==
    [][\A p \in CreateProcs :
         (pc[p] = "create" /\ pc'[p] = "idle") =>
           /\ Len(req[p].text) = 10000 =>
                /\ resp'[p].status = HTTP_201_CREATED
                /\ resp'[p].body.postID = nextPostId
                /\ DOMAIN posts' = DOMAIN posts \cup {nextPostId}
                /\ posts'[nextPostId].user_id = cur[p]
           /\ (Len(req[p].text) = 10001 \/ req[p].text = <<>>) =>
                /\ resp'[p] = ValidationError
                /\ posts' = posts
                /\ nextPostId' = nextPostId]_vars

C17_Witness ==
    \E p \in CreateProcs :
      /\ case[p].kind = "create"
      /\ resp[p].status = HTTP_201_CREATED
      /\ Len(posts[case[p].post_id].text) = 10000

\* C18 as the specification states it: every stored post has a text of 1 to
\* 10000 characters with no white space at either end, whatever accepted
\* text the Create was given.
C18_StoredTextAsStated ==
    \A i \in DOMAIN posts :
      /\ Len(posts[i].text) >= 1
      /\ Len(posts[i].text) <= 10000
      /\ strip(posts[i].text) = posts[i].text

-----------------------------------------------------------------------------
(* Claims about the size of a request, checked under SpecUpload             *)

\* C19 as the specification states it: a POST whose body is larger than
\* MAX_PAYLOAD_SIZE never reaches identity resolution or a handler, whether
\* it declares its length or not, and what answers it is the 413 response;
\* the store is as it was before the request.
C19_OversizeRejectedAsStated ==
    \A p \in UploadProcs :
      /\ Oversize(req[p]) => pc[p] = "idle"
      /\ case[p].kind = "too_large" => resp[p] = PayloadTooLarge

-----------------------------------------------------------------------------
(* Claims about failures of the database, checked under SpecFault           *)

\* C20 as the specification states it: whatever step of Signup, Login,
\* identity resolution, Create, List or Delete the database fails in, the
\* request is answered with one of the error responses of the application
\* and never with the exception the database raised.
C20_NoRawStoreExceptionAsStated ==
    \A p \in FaultProcs :
      case[p].kind = "store_failure" =>
        /\ resp[p].body # SQLAlchemyError
        /\ resp[p] \in {signup_response(None), login_response(None),
                        Unauthorized, create_response(None),
                        delete_response(None)}

-----------------------------------------------------------------------------
(* Claims about refused logins and tokens, checked under SpecRefusal        *)

TokenFailures ==
    {"auth_invalid_token", "auth_no_subject", "auth_bad_subject",
     "auth_no_account", "auth_inactive"}

AuthenticationFailures == LoginFailures \cup TokenFailures

\* C21 as the specification states it: a login with bad credentials and a
\* protected request whose token is malformed, badly signed, expired, or
\* names a missing or an inactive account are all answered 401, and any two
\* such answers carry the same message.
C21_OneAuthenticationErrorAsStated ==
    \A p, q \in Procs :
      case[p].kind \in AuthenticationFailures =>
        /\ resp[p].status = HTTP_401_UNAUTHORIZED
        /\ case[q].kind \in AuthenticationFailures =>
             resp[p].detail = resp[q].detail

\* the part of C21 that holds whatever the token: a refused login and a
\* refused token whose subject is a number or is missing are answered 401
C21_Status401 ==
    \A p \in Procs :
      case[p].kind \in AuthenticationFailures \ {"auth_bad_subject"} =>
        resp[p].status = HTTP_401_UNAUTHORIZED

-----------------------------------------------------------------------------
(* Claims about failed writes of posts, checked under SpecServiceFault      *)

\* the step answers connection p with a case of the kind given
Answers(p, kind) ==
    /\ case'[p].kind = kind
    /\ <<resp[p], case[p]>> # <<resp'[p], case'[p]>>

C23_DeleteFailureLeavesAll ==
    [][\A p \in Procs :
         Answers(p, "delete_failed") =>
           /\ resp'[p] = NotFound
           /\ posts' = posts
           /\ case'[p].post_id \in UserPostIds(Caller(p))'
           /\ shared' = shared]_vars

\* a Delete failed while the cache held a list of the owner with the post
C23_Witness ==
    \E p \in Procs :
      /\ case[p].kind = "delete_failed"
      /\ resp[p] = NotFound
      /\ case[p].post_id \in UserPostIds(Caller(p))
      /\ cache_key(Caller(p)) \in DOMAIN shared
      /\ Len(shared[cache_key(Caller(p))].data) = 1

-----------------------------------------------------------------------------
(* Claims about the answers of List, checked under SpecListing              *)

-----------------------------------------------------------------------------
(* Claims about the cached flag, checked under SpecCache                    *)

\* the cache holds an entry of account u that is younger than the lifetime
\* of an entry
Served(u) ==
    /\ cache_key(u) \in DOMAIN shared
    /\ now - shared[cache_key(u)].time < CacheTTLTicks

\* C25: a List answers cached=true exactly when the cache held an entry of
\* the owner younger than its lifetime, and then with the posts of the entry
\* and the cache left alone; it answers cached=false exactly when it fetched,
\* and then the entry of the owner is what it fetched stamped with the time
\* of the call. An owner without posts is no exception: the empty list is
\* stored and served.
C25_CachedFlag ==
    [][\A p \in CacheProcs :
         Answers(p, "list") =>
           LET body == resp'[p].body
               key == cache_key(Caller(p))
           IN  /\ body.cached <=> Served(Caller(p))
               /\ body.cached =>
                    /\ body.posts = shared[key].data
                    /\ shared' = shared
               /\ ~body.cached =>
                    /\ shared'[key] = [data |-> body.posts, time |-> now]
                    /\ Len(body.posts) = Cardinality(UserPostIds(Caller(p)))
               /\ (Served(Caller(p)) /\ shared[key].data = <<>>) =>
                    /\ body.posts = <<>>
                    /\ body.total = 0
                    /\ body.cached]_vars

\* a List of an owner without posts was answered from the cache
C25_Witness ==
    \E p \in CacheProcs :
      /\ case[p].kind = "list"
      /\ resp[p].body.cached
      /\ resp[p].body.posts = <<>>
      /\ resp[p].body.total = 0
      /\ UserPostIds(Caller(p)) = {}

-----------------------------------------------------------------------------
(* Claims about the life of a post, checked under Spec                      *)

\* C26: a post leaves the posts table only in the step in which a DELETE of
\* that post, sent by the account that owns it, is answered 200; and a post
\* that stays has the user_id and the text it had before the step, whatever
\* the step.
C26_PostsImmutable ==
    [][\A i \in DOMAIN posts :
         /\ i \in DOMAIN posts' =>
              /\ posts'[i].user_id = posts[i].user_id
              /\ posts'[i].text = posts[i].text
         /\ i \notin DOMAIN posts' =>
              \E p \in Procs :
                /\ pc[p] = "delete_commit"
                /\ req[p].post_id = i
                /\ cur[p] = posts[i].user_id
                /\ resp'[p].status = HTTP_200_OK
                /\ resp'[p].body.postID = i]_vars

\* the owner of a post has deleted it while the other post is still there,
\* and a request of the other account to delete that one was refused
C26_Witness ==
    \E p, q \in Procs :
      /\ case[p].kind = "delete_owned"
      /\ resp[p].status = HTTP_200_OK
      /\ case[p].post_id \notin DOMAIN posts
      /\ case[q].kind = "delete_not_owner"
      /\ case[q].post_id \in DOMAIN posts

-----------------------------------------------------------------------------
(* Claims about the tokens issued, checked under SpecIssue                  *)

\* the step answers connection p with a token
Issues(p) ==
    /\ pc[p] \in {"signup_create", "login"}
    /\ pc'[p] = "idle"
    /\ resp'[p].status \in {HTTP_200_OK, HTTP_201_CREATED}

\* C27: the token a Signup or a Login answers with has for subject the
\* string of the id of the account that has the email of the request (the
\* account just created, or the one just authenticated), carries that
\* email, and expires ACCESS_TOKEN_EXPIRE_MINUTES after the second in which
\* it was issued; it is signed with SECRET_KEY and ALGORITHM.
C27_IssuedTokenClaims ==
    [][\A p \in IssueProcs :
         Issues(p) =>
           LET token == resp'[p].body.token
               id == CHOOSE i \in DOMAIN users' :
                       users'[i].email = req[p].email
           IN  /\ \E i \in DOMAIN users' : users'[i].email = req[p].email
               /\ token.kind = "jwt"
               /\ token.sub = str(id)
               /\ token.email = req[p].email
               /\ token.exp
                    = UnixSeconds(now) + ACCESS_TOKEN_EXPIRE_MINUTES * 60
               /\ token.key = SECRET_KEY
               /\ token.alg = ALGORITHM
               /\ pc[p] = "signup_create" => id \notin DOMAIN users
               /\ pc[p] = "login" => id \in DOMAIN users]_vars

\* a token was issued to the second account after the first second
C27_Witness ==
    \E p \in IssueProcs :
      /\ resp[p].status \in {HTTP_200_OK, HTTP_201_CREATED}
      /\ resp[p].body # None
      /\ resp[p].body.token.sub = str(2)
      /\ resp[p].body.token.exp > ACCESS_TOKEN_EXPIRE_MINUTES * 60

-----------------------------------------------------------------------------
(* Claims about the verification of tokens, checked under SpecRotate        *)

\* what makes a bearer string invalid at the time of a request: it is no
\* token at all, its signature is not of the current secret, its algorithm
\* is not the configured one, or its expiry is past
Malformed(t) == t.kind # "jwt"
BadSignature(t) == t.key # settings.SECRET_KEY
WrongAlgorithm(t) == t.alg # ALGORITHM
Expired(t) == t.exp < UnixSeconds(now)

\* C28: verify_token returns None, and the request is answered 401 as for
\* any token that is not valid, when the bearer string is malformed, has a
\* bad signature, names another algorithm, or has expired; and so for a
\* token the service issued itself before its secret was replaced.
C28_InvalidIsAValue ==
    [][\A p \in RotateProcs :
         (pc[p] = "auth" /\ pc'[p] # "auth") =>
           LET t == req[p].token
           IN  (\/ Malformed(t) \/ BadSignature(t)
                \/ WrongAlgorithm(t) \/ Expired(t)) =>
                 /\ verify_token(t, now) = None
                 /\ pc'[p] = "idle"
                 /\ resp'[p] = Unauthorized]_vars

\* a token that a login returned was refused after the secret was replaced
C28_Witness ==
    \E p \in RotateProcs :
      /\ case[p].issued
      /\ resp[p] = Unauthorized
      /\ tok.token # NoToken
      /\ tok.token.key = SECRET_KEY
      /\ settings.SECRET_KEY # SECRET_KEY
      /\ users[tok.id].is_active

-----------------------------------------------------------------------------
(* Claims about the password policy, checked under SpecPolicy               *)

\* the password breaks the policy: fewer than 8 or more than 128
\* characters, no letter, or no digit
BreaksPolicy(v) ==
    \/ Len(v) < 8
    \/ Len(v) > 128
    \/ ~HasLetter(v)
    \/ ~HasDigit(v)

\* C29: a Signup whose password breaks the policy is answered with the
\* validation error in its first step, before AuthService.signup looks at
\* the users table, and the users table is as it was; so the password of
\* every account in the table keeps the policy.
C29_PolicyBeforeSignup ==
    /\ [](\A id \in DOMAIN users : ~BreaksPolicy(users[id].plain))
    /\ [][\A p \in PolicyProcs :
            (pc[p] = "signup" /\ pc'[p] # "signup"
             /\ BreaksPolicy(req[p].password)) =>
              /\ pc'[p] = "idle"
              /\ resp'[p] = ValidationError
              /\ users' = users]_vars

\* a signup with a password of 129 characters was refused, with the account
\* of a signup with 128 characters in the table
C29_Witness ==
    \E p \in PolicyProcs :
      /\ case[p].kind = "signup_invalid"
      /\ resp[p] = ValidationError
      /\ \E id \in DOMAIN users : Len(users[id].plain) = 128

-----------------------------------------------------------------------------
(* Claims about the stored credential, checked under SpecCredential         *)

\* the part of C30 about what is stored: the hashed_password of an account
\* is not the password given at its signup
C30_HashNotPlaintext ==
    \A id \in DOMAIN users :
      users[id].hashed_password.digest # users[id].plain

\* C30 as the specification states it: the hashed_password of an account is
\* not its password, and a Login to a registered active account is answered
\* 200 with a token if the password sent is the one given at Signup, and
\* 401 if it is any other.
C30_LoginIffSamePasswordAsStated ==
    /\ C30_HashNotPlaintext
    /\ \A p \in CredentialProcs :
         case[p].kind \in {"login_ok", "login_wrong_password"} =>
           (resp[p].status = HTTP_200_OK <=> case[p].kind = "login_ok")

-----------------------------------------------------------------------------
(* Claims about the entries of different accounts, checked under            *)
(* SpecService                                                              *)

\* the step is a call of connection p that has returned
Returns(p) == <<resp[p], case[p]>> # <<resp'[p], case'[p]>>

\* the entry of account u, or None when the cache has none
Entry(c, u) == IF cache_key(u) \in DOMAIN c THEN c[cache_key(u)] ELSE None

\* C31: a Create, a Delete or a List of an account leaves the cache entry
\* of every other account as it was, there or not, and the posts a List
\* answers with all have the caller for user_id.
C31_EntriesPerAccount ==
    [][\A p \in Procs :
         Returns(p) =>
           /\ \A u \in DOMAIN users \ {Caller(p)} :
                Entry(shared', u) = Entry(shared, u)
           /\ case'[p].kind = "list" =>
                \A k \in 1..Len(resp'[p].body.posts) :
                  resp'[p].body.posts[k].user_id = Caller(p)]_vars

\* both accounts have an entry, each with a post of its own, and the first
\* account has had a List answered from its entry
C31_Witness ==
    /\ \A u \in DOMAIN users :
         /\ cache_key(u) \in DOMAIN shared
         /\ Len(shared[cache_key(u)].data) = 1
         /\ shared[cache_key(u)].data[1].user_id = u
    /\ case[1].kind = "list"
    /\ resp[1].body.cached

\* C32: a Delete of a post that is not in the posts table, or that has
\* another account for user_id, is answered 404 and leaves the posts table
\* and the whole cache as they were: neither the entry of the requester nor
\* that of the owner is removed or changed.
C32_RefusedDeleteChangesNothing ==
    [][\A p \in Procs :
         (Returns(p)
          /\ case'[p].kind \in {"delete_absent", "delete_not_owner"}) =>
           /\ resp'[p] = NotFound
           /\ posts' = posts
           /\ shared' = shared]_vars

\* a Delete of a post of the other account was refused while the cache held
\* the entries of both accounts
C32_Witness ==
    \E p \in Procs :
      /\ case[p].kind = "delete_not_owner"
      /\ resp[p] = NotFound
      /\ case[p].post_id \in DOMAIN posts
      /\ \A u \in DOMAIN users : cache_key(u) \in DOMAIN shared

(* Claims about the age of an entry, checked under SpecExpiry *)

\* C34: a List answered cached=true returns the list of an entry stamped
\* less than 300 seconds before the call and leaves the cache, the stamp of
\* that entry included, as it was; an entry is written only by a List that
\* went to the store, stamped with the time of that call. So no list is
\* served for 300 seconds or more after the List that stored it.
C34_StalenessBounded ==
    /\ [][\A p \in CacheProcs :
            (Returns(p) /\ case'[p].kind = "list" /\ resp'[p].body.cached) =>
              LET key == cache_key(Caller(p))
              IN  /\ key \in DOMAIN shared
                  /\ now - shared[key].time < CACHE_SECONDS * TicksPerSec
                  /\ resp'[p].body.posts = shared[key].data
                  /\ shared' = shared]_vars
    /\ [][\A u \in DOMAIN users :
            (Entry(shared', u) # Entry(shared, u)
             /\ Entry(shared', u) # None) =>
              /\ Entry(shared', u).time = now
              /\ \E p \in CacheProcs :
                   /\ Returns(p) /\ case'[p].kind = "list"
                   /\ Caller(p) = u
                   /\ ~resp'[p].body.cached]_vars

\* a List was answered from an entry that a List stored after the start and
\* that has aged since
C34_Witness ==
    \E p \in CacheProcs :
      /\ case[p].kind = "list"
      /\ resp[p].body.cached
      /\ shared[cache_key(Caller(p))].time > 0
      /\ now > shared[cache_key(Caller(p))].time

\* C35: a List that finds an entry younger than 300 seconds is answered
\* from it with cached=true; a List that finds an entry of exactly 300
\* seconds goes to the store, is answered cached=false with the posts of
\* the table and stamps the entry with the time of the call.
C35_ExpiryBoundary ==
    [][\A p \in CacheProcs :
         (/\ Returns(p) /\ case'[p].kind = "list"
          /\ cache_key(Caller(p)) \in DOMAIN shared) =>
           LET key == cache_key(Caller(p))
               age == now - shared[key].time
           IN  /\ age < CACHE_SECONDS * TicksPerSec =>
                    /\ resp'[p].body.cached
                    /\ resp'[p].body.posts = shared[key].data
               /\ age = CACHE_SECONDS * TicksPerSec =>
                    /\ ~resp'[p].body.cached
                    /\ Listed(resp'[p]) = UserPostIds(Caller(p))
                    /\ shared'[key].time = now]_vars

\* a List was answered from an entry one tick younger than 300 seconds
C35_Witness ==
    \E p \in CacheProcs :
      /\ case[p].kind = "list"
      /\ resp[p].body.cached
      /\ now - shared[cache_key(Caller(p))].time
           = CACHE_SECONDS * TicksPerSec - 1

(* Claims about the entry a List leaves behind, checked under SpecFill *)

\* C36: a List that did not answer from the cache takes the time at its
\* start, keeps it through the fetch, and when it returns the entry of the
\* owner holds the list it returned, stamped with that time and not with
\* the time after the fetch.
C36_EntryStampedAtStart ==
    /\ [][\A p \in CacheProcs :
            (pc[p] = "svc_list" /\ pc'[p] = "svc_list_fetch") =>
              loaded'[p].time = now]_vars
    /\ [][\A p \in CacheProcs :
            (pc[p] = "svc_list_fetch" /\ pc'[p] = "svc_list_fill") =>
              loaded'[p].time = loaded[p].time]_vars
    /\ [][\A p \in CacheProcs :
            (Returns(p) /\ case'[p].kind = "list"
             /\ ~resp'[p].body.cached) =>
              Entry(shared', case'[p].user_id)
                = [time |-> loaded[p].time, data |-> resp'[p].body.posts]]_vars

\* a List that went to the database while the clock advanced has returned a
\* post, and the entry it left holds that list with a stamp before the time
\* of the return
C36_Witness ==
    \E p \in CacheProcs :
      /\ case[p].kind = "list"
      /\ ~resp[p].body.cached
      /\ Len(resp[p].body.posts) >= 1
      /\ Entry(shared, case[p].user_id) # None
      /\ Entry(shared, case[p].user_id).data = resp[p].body.posts
      /\ Entry(shared, case[p].user_id).time < now

(* Claims about two Deletes of one post in flight together, checked under *)
(* Spec                                                                     *)

\* C33, as stated: when two Deletes of the owner for one post have both
\* loaded the post and passed the ownership check before either deletes it,
\* the one whose DELETE finds the row gone is answered 404, so that at most
\* one of the two is answered 200.
C33_InterleavedDeletesAsStated ==
    [][\A p \in Procs :
         (/\ pc[p] = "delete_commit" /\ pc'[p] = "idle"
          /\ loaded[p].id \notin DOMAIN posts)
         => resp'[p] = NotFound]_vars

-----------------------------------------------------------------------------
(* Claims about one PostService object called from several threads,         *)
(* checked under SpecRace                                                   *)

\* no call for account u is in progress
Quiet(u) == \A p \in Procs : pc[p] = "idle" \/ cur[p] # u

\* the ids of the posts in the entry of account u
EntryIds(u) ==
    LET data == shared[cache_key(u)].data
    IN  {data[k].postID : k \in 1..Len(data)}

\* C16 as the specification states it: whatever the interleaving of the
\* steps of a List with the steps of a Create or a Delete of the same owner,
\* once the calls have finished the cache holds no entry of that owner that
\* was filled from a fetch made before the write, so that the next List
\* answers with the posts as the write left them.
C16_InvalidationNeverLostAsStated ==
    \A u \in DOMAIN users :
      (Quiet(u) /\ cache_key(u) \in DOMAIN shared) =>
        EntryIds(u) = UserPostIds(u)

====
